---- MODULE Spec2Model ----
(***************************************************************************)
(* Model of rabex-env: the serialized-file cache of Environment (env.rs),  *)
(* ArchivePath parsing (addressables/archive_path.rs), the reachability    *)
(* traversal (reachable.rs), scene pruning (prune.rs), the path lookup of  *)
(* a scene (scene_lookup.rs), the binary catalog decoder                   *)
(* (addressables/binary_catalog.rs) and the bundle index of the            *)
(* addressables (addressables/mod.rs).                                     *)
(*                                                                         *)
(* One module, several specifications over one set of variables; each      *)
(* specification leaves the variables of the other parts at their idle     *)
(* values.                                                                 *)
(***************************************************************************)
EXTENDS Integers, Sequences, FiniteSets, TLC

VARIABLES
    \* reachable.rs / prune.rs
    file,        \* SerializedFile: path_id -> object (only ids of the object table)
    from,        \* the VecDeque<PathId> handed to reachable()
    queue,       \* reachable(): let mut queue = from
    locals,      \* reachable(): BTreeSet<PathId>
    externals,   \* reachable(): BTreeSet<PPtr>
    expanded,    \* the nodes queue.pop_front() has returned, in order
    rpc          \* position of reachable(): "loop" | "done" | "panic" | "error" | "idle"

reachVars == <<file, from, queue, locals, externals, expanded, rpc>>

VARIABLES
    \* addressables/archive_path.rs
    ap_path,     \* the &Path handed to ArchivePath::try_parse
    ap_result    \* what try_parse returned, "pending" before the call

parseVars == <<ap_path, ap_result>>

VARIABLES
    \* env.rs: Environment
    serialized_files, \* FrozenMap<PathBuf, Box<(SerializedFile, Data)>>
    unity_version,    \* OnceLock<UnityVersion>: "unset" | "set"
    addressables,     \* OnceLock<Option<AddressablesData>>: "unset" | "none" | "some"
    disk,             \* the game directory, which no operation changes
    thr,              \* the callers: position and call record of each thread
    reads,            \* per logical path: how often its bytes were read and parsed
    calls             \* number of calls started

cacheVars == <<serialized_files, unity_version, addressables, disk, thr, reads, calls>>

VARIABLES
    \* prune.rs: prune_scene_inner
    retain_objects, \* Vec<(String, Transform)>, as the path_ids of the Transforms
    disable_roots,  \* bool
    all_reachable,  \* BTreeSet<PathId>
    ancestors,      \* Vec<(PathId, Transform)>, as path_ids
    replacements,   \* FxHashMap<PathId, Vec<u8>>: path_id -> the rewritten object
    ppc,            \* position of prune_scene_inner
    pi              \* index of the loop it is in

pruneVars == <<retain_objects, disable_roots, all_reachable, ancestors, replacements, ppc, pi>>

VARIABLES
    \* scene_lookup.rs: SceneLookup, and the keep-list loop of prune_scene
    retain_paths,   \* the keep-list of prune_scene: a sequence of paths
    roots,          \* SceneLookup::roots, as path_ids
    roots_lookup,   \* SceneLookup::roots_lookup: name -> RootLookup
    lk_path,        \* the path handed to lookup_path, as its '/'-separated segments
    lk_result,      \* what lookup_path returned
    lpc             \* position of SceneLookup::new / lookup_path / prune_scene

lookupVars == <<retain_paths, roots, roots_lookup, lk_path, lk_result, lpc>>

VARIABLES
    \* addressables/binary_catalog.rs: BinaryCatalogReader
    catalog,        \* the byte source: offset -> what is stored there
    cat_reader,     \* BinaryCatalogReader::reader: the seeks and reads it has done
    cat_cache,      \* BinaryCatalogReader::cache: Cache {strings, locations}
    cat_made,       \* the ResourceLocations allocated (Arc::new), as their offsets
    cat_call,       \* the last call on the reader and what it returned
    cat_n,          \* number of calls made on the reader
    cat_pc          \* "new" | "ready" | "failed" | "panic" | "idle"

catalogVars == <<catalog, cat_reader, cat_cache, cat_made, cat_call, cat_n, cat_pc>>

VARIABLES
    \* addressables/mod.rs: addressables_bundle_lookup
    ix_dir,         \* the aa directory: bundle file -> the members of the archive
    ix_pending,     \* the directory entries the parallel walk has not folded yet
    ix_accs,        \* the fold accumulators: a set of (cab_to_bundle, bundle_to_cab)
    ix_result       \* what addressables_bundle_lookup returned

indexVars == <<ix_dir, ix_pending, ix_accs, ix_result>>

VARIABLES
    \* handle.rs, env.rs: a caller that dereferences pointers
    m_Externals,    \* SerializedFile::m_Externals of every file of the game
    dr_handle,      \* the ObjectRefHandle the caller holds
    dr_last,        \* the last dereference: handle, pointer and result
    dr_n            \* number of operations the caller has made

derefVars == <<m_Externals, dr_handle, dr_last, dr_n>>

VARIABLES
    \* utils.rs: par_fold_reduce
    fr_shape,       \* the accumulator type Acc of the call
    fr_items,       \* the items of the iterator, in its order
    fr_pending,     \* the positions of the items no worker has folded yet
    fr_accs,        \* the accumulators of the workers that are not merged yet
    fr_result       \* what par_fold_reduce returned

foldVars == <<fr_shape, fr_items, fr_pending, fr_accs, fr_result>>

vars == <<reachVars, parseVars, cacheVars, pruneVars, lookupVars, catalogVars, indexVars,
          derefVars, foldVars>>

(***************************************************************************)
(* Bounds.                                                                 *)
(***************************************************************************)
\* total number of pointer fields in a generated file
MaxEdges == 3
\* length of the root queue handed to reachable()
MaxRoots == 2
\* length, in tokens, of a path handed to ArchivePath::try_parse
MaxPathLen == 5
\* number of threads that call into one Environment
NumThreads == 2
\* number of calls the threads start, all together
MaxCalls == 2
\* number of Transforms of a generated scene
MaxTransforms == 3
\* length of the keep-list handed to prune_scene_inner
MaxKeep == 2
\* number of segments of a path handed to lookup_path
MaxSegments == 3
\* number of linked nodes of a segmented string of a catalog
MaxFragments == 3
\* number of dependencies of a ResourceLocation of a catalog
MaxDeps == 2
\* number of calls made on one BinaryCatalogReader after new()
MaxDecodes == 2
\* number of entries of the addressables build directory
MaxBundles == 2
\* number of members of one bundle file
MaxMembers == 2
\* number of entries of the externals table of a serialized file
MaxExternals == 2
\* number of operations a caller makes on its handles
MaxDerefs == 3

(***************************************************************************)
(* Small helpers.                                                          *)
(***************************************************************************)
Range(s) == {s[i] : i \in 1..Len(s)}

SeqsUpTo(S, n) == UNION {[1..k -> S] : k \in 0..n}

(***************************************************************************)
(* PPtr: {m_FileID, m_PathID}; m_FileID = 0 is "local".                    *)
(***************************************************************************)
PP(fid, pid) == [m_FileID |-> fid, m_PathID |-> pid]

is_local(p) == p.m_FileID = 0

\* An object of the file, reduced to what the traversal and the pruning read.
Obj(class, name, go, father, children, refs) ==
    [class |-> class, m_Name |-> name, m_GameObject |-> go, m_Father |-> father,
     m_Children |-> children, m_IsActive |-> TRUE, refs |-> refs]

\* An object of no particular class whose pointer fields are `refs`.
Other(refs) == Obj("Other", "", 0, 0, <<>>, refs)

\* trace_pptr::trace_pptrs_endianned: the PPtr-typed fields of one object in
\* type-tree order.  reachable() "only goes down the transform hierarchy":
\* a Transform contributes its GameObject and its children, not m_Father.
trace_pptrs_endianned(o) ==
    IF o.class = "Transform"
    THEN <<PP(0, o.m_GameObject)>> \o o.m_Children
    ELSE o.refs

\* file.get_object_info(from): Some iff the id is in the object table.
get_object_info(f, id) == id \in DOMAIN f

\* reachable_one: the pointers of object `node` (the caller has checked the
\* unwrap and the type tree).
reachable_one(f, node) == trace_pptrs_endianned(f[node])

(***************************************************************************)
(* reachable(): one iteration of `while let Some(node) = queue.pop_front()`*)
(***************************************************************************)
RECURSIVE scan_externals_as_locals(_, _, _, _)
\* scan without the is_local test: every pointer is followed as if it were local
scan_externals_as_locals(ptrs, l, e, q) ==
    IF ptrs = <<>> THEN <<l, e, q>>
    ELSE LET p == Head(ptrs) IN
         IF p.m_PathID \notin l
         THEN scan_externals_as_locals(Tail(ptrs), l \cup {p.m_PathID}, e, Append(q, p.m_PathID))
         ELSE scan_externals_as_locals(Tail(ptrs), l, e, q)

RECURSIVE scan_break_on_external(_, _, _, _)
\* scan with `break` in place of `continue` after an external pointer
scan_break_on_external(ptrs, l, e, q) ==
    IF ptrs = <<>> THEN <<l, e, q>>
    ELSE LET p == Head(ptrs) IN
         IF ~is_local(p)
         THEN <<l, e \cup {p}, q>>
         ELSE IF p.m_PathID \notin l
              THEN scan_break_on_external(Tail(ptrs), l \cup {p.m_PathID}, e, Append(q, p.m_PathID))
              ELSE scan_break_on_external(Tail(ptrs), l, e, q)

RECURSIVE scan(_, _, _, _)
\* the `for reachable in reachable` loop over the pointers of one node;
\* returns <<locals, externals, queue>>
scan(ptrs, l, e, q) ==
    IF ptrs = <<>> THEN <<l, e, q>>
    ELSE LET p == Head(ptrs) IN
         IF ~is_local(p)
         THEN scan(Tail(ptrs), l, e \cup {p}, q)
         ELSE IF p.m_PathID \notin l
              THEN scan(Tail(ptrs), l \cup {p.m_PathID}, e, Append(q, p.m_PathID))
              ELSE scan(Tail(ptrs), l, e, q)

\* the node exists and its type tree is found: expand it
reachable_loop ==
    /\ rpc = "loop"
    /\ queue # <<>>
    /\ LET node == Head(queue) IN
       /\ get_object_info(file, node)
       /\ LET r == scan(reachable_one(file, node), locals \cup {node}, externals, Tail(queue)) IN
          /\ locals' = r[1]
          /\ externals' = r[2]
          /\ queue' = r[3]
          /\ expanded' = Append(expanded, node)
    /\ UNCHANGED <<file, from, rpc>>
    /\ UNCHANGED <<parseVars, cacheVars, pruneVars, lookupVars, catalogVars, indexVars, derefVars, foldVars>>

\* the unwrap replaced by skipping the node that has no object
reachable_skips_missing ==
    /\ rpc = "loop"
    /\ queue # <<>>
    /\ ~get_object_info(file, Head(queue))
    /\ locals' = locals \cup {Head(queue)}
    /\ queue' = Tail(queue)
    /\ expanded' = Append(expanded, Head(queue))
    /\ UNCHANGED <<file, from, externals, rpc>>
    /\ UNCHANGED <<parseVars, cacheVars, pruneVars, lookupVars, catalogVars, indexVars, derefVars, foldVars>>

\* file.get_object_info(from).unwrap() on an id that is not in the object table
reachable_panic ==
    /\ rpc = "loop"
    /\ queue # <<>>
    /\ ~get_object_info(file, Head(queue))
    /\ locals' = locals \cup {Head(queue)}
    /\ queue' = Tail(queue)
    /\ expanded' = Append(expanded, Head(queue))
    /\ rpc' = "panic"
    /\ UNCHANGED <<file, from, externals>>
    /\ UNCHANGED <<parseVars, cacheVars, pruneVars, lookupVars, catalogVars, indexVars, derefVars, foldVars>>

\* file.get_typetree_for(info, &env.tpk)? fails: the error is returned
reachable_error ==
    /\ rpc = "loop"
    /\ queue # <<>>
    /\ get_object_info(file, Head(queue))
    /\ locals' = locals \cup {Head(queue)}
    /\ queue' = Tail(queue)
    /\ expanded' = Append(expanded, Head(queue))
    /\ rpc' = "error"
    /\ UNCHANGED <<file, from, externals>>
    /\ UNCHANGED <<parseVars, cacheVars, pruneVars, lookupVars, catalogVars, indexVars, derefVars, foldVars>>

\* the loop of reachable() with `if` in place of `while`: it returns after
\* the first node, whatever is left in the queue
reachable_return_after_first ==
    /\ rpc = "loop"
    /\ expanded # <<>>
    /\ rpc' = "done"
    /\ UNCHANGED <<file, from, queue, locals, externals, expanded>>
    /\ UNCHANGED <<parseVars, cacheVars, pruneVars, lookupVars, catalogVars, indexVars, derefVars, foldVars>>

\* queue empty: Ok((locals, externals))
reachable_return ==
    /\ rpc = "loop"
    /\ queue = <<>>
    /\ rpc' = "done"
    /\ UNCHANGED <<file, from, queue, locals, externals, expanded>>
    /\ UNCHANGED <<parseVars, cacheVars, pruneVars, lookupVars, catalogVars, indexVars, derefVars, foldVars>>

(***************************************************************************)
(* Generated files for the traversal: objects PathIds, pointers to         *)
(* objects, to an id that is in no object table, and to an external file.  *)
(* A file is drawn as a list of at most MaxEdges pointer fields            *)
(* <<owner, pointer>>, owners in file order.                               *)
(***************************************************************************)
PathIds == {1, 2, 3}
Dangling == Cardinality(PathIds) + 1
GenPtrs == {PP(0, i) : i \in PathIds \cup {Dangling}} \cup {PP(1, 1)}

EdgeLists ==
    {es \in SeqsUpTo(PathIds \X GenPtrs, MaxEdges) :
        \A i \in 1..(Len(es) - 1) : es[i][1] <= es[i + 1][1]}

RECURSIVE FieldsOf(_, _)
FieldsOf(es, i) ==
    IF es = <<>> THEN <<>>
    ELSE IF Head(es)[1] = i THEN <<Head(es)[2]>> \o FieldsOf(Tail(es), i)
         ELSE FieldsOf(Tail(es), i)

GenFile(es) == [i \in PathIds |-> Other(FieldsOf(es, i))]

IdleCatalog ==
    /\ catalog = <<>>
    /\ cat_reader = <<>>
    /\ cat_cache = <<>>
    /\ cat_made = <<>>
    /\ cat_call = [op |-> "idle"]
    /\ cat_n = 0
    /\ cat_pc = "idle"

IdleIndex ==
    /\ ix_dir = <<>>
    /\ ix_pending = {}
    /\ ix_accs = {}
    /\ ix_result = [kind |-> "idle"]

IdleDeref ==
    /\ m_Externals = <<>>
    /\ dr_handle = [kind |-> "none"]
    /\ dr_last = [op |-> "none"]
    /\ dr_n = 0

IdleFold ==
    /\ fr_shape = [t |-> "none"]
    /\ fr_items = <<>>
    /\ fr_pending = {}
    /\ fr_accs = <<>>
    /\ fr_result = [kind |-> "idle"]

IdleParse ==
    /\ ap_path = <<>>
    /\ ap_result = [kind |-> "idle"]

IdleLookup ==
    /\ retain_paths = <<>>
    /\ roots = <<>>
    /\ roots_lookup = <<>>
    /\ lk_path = <<>>
    /\ lk_result = [kind |-> "idle"]
    /\ lpc = "idle"

IdlePrune ==
    /\ retain_objects = <<>>
    /\ disable_roots = FALSE
    /\ all_reachable = {}
    /\ ancestors = <<>>
    /\ replacements = <<>>
    /\ ppc = "idle"
    /\ pi = 1

IdleCache ==
    /\ serialized_files = <<>>
    /\ unity_version = "unset"
    /\ addressables = "unset"
    /\ disk = <<>>
    /\ thr = <<>>
    /\ reads = <<>>
    /\ calls = 0

InitReach ==
    /\ IdleLookup
    /\ IdleParse
    /\ IdleCatalog
    /\ IdleIndex
    /\ IdleDeref
    /\ IdleFold
    /\ IdleCache
    /\ IdlePrune
    /\ \E es \in EdgeLists : file = GenFile(es)
    /\ from \in SeqsUpTo(PathIds \cup {Dangling}, MaxRoots)
    /\ queue = from
    /\ locals = {}
    /\ externals = {}
    /\ expanded = <<>>
    /\ rpc = "loop"

NextReach ==
    \/ reachable_loop
    \/ reachable_panic
    \/ reachable_error
    \/ reachable_return

SpecReach == InitReach /\ [][NextReach]_vars

(***************************************************************************)
(* Properties of reachable().                                              *)
(***************************************************************************)
\* the local pointer targets found in object i
LocalTargets(f, i) ==
    {p.m_PathID : p \in {x \in Range(trace_pptrs_endianned(f[i])) : is_local(x)}}

\* the non-local pointers found in object i
ExternalPtrs(f, i) == {x \in Range(trace_pptrs_endianned(f[i])) : ~is_local(x)}

RECURSIVE LeastClosed(_, _)
\* the least set that contains S and is closed under local pointers
LeastClosed(f, S) ==
    LET T == S \cup UNION {LocalTargets(f, i) : i \in S \cap DOMAIN f} IN
    IF T = S THEN S ELSE LeastClosed(f, T)

Roots == Range(from)

\* C7: the locals returned by reachable(R) contain every root and only
\* path_ids of the file's object table.
C7_LocalsBetweenRootsAndObjects ==
    rpc = "done" => (Roots \subseteq locals /\ locals \subseteq DOMAIN file)

\* a returned traversal that found a non-root object and met a root twice
C7_Witness ==
    /\ rpc = "done"
    /\ Roots # {}
    /\ locals \ Roots # {}
    /\ Len(from) > Cardinality(Roots)

\* C8: in the result every local that is not a root is the target of a local
\* pointer of another member of locals, and lies on a chain of local
\* pointers from a root.
C8_NoOrphans ==
    rpc = "done" =>
        \A id \in locals \ Roots :
            /\ \E j \in (locals \ {id}) \cap DOMAIN file : id \in LocalTargets(file, j)
            /\ id \in LeastClosed(file, Roots)

\* a returned traversal with a non-root two hops away from the root, in a
\* file that also holds an external pointer to the same path_id number
C8_Witness ==
    /\ rpc = "done"
    /\ Len(from) = 1
    /\ \E a \in locals \ Roots, b \in locals \ Roots :
          /\ a # b
          /\ b \notin LocalTargets(file, from[1])
          /\ b \in LocalTargets(file, a)
    /\ externals # {}

\* C9: reachable returns exactly (L, E), L the least set containing the
\* roots and closed under local pointers, E the non-local pointers of the
\* objects of L; both depend only on the set of roots and the sets of
\* pointers, not on their order.
C9_ExactClosure ==
    rpc = "done" =>
        /\ locals = LeastClosed(file, Roots)
        /\ externals = UNION {ExternalPtrs(file, i) : i \in locals}

\* a returned traversal of an object that holds an external pointer before a
\* local one, from two distinct roots
C9_Witness ==
    /\ rpc = "done"
    /\ Cardinality(Roots) = 2
    /\ \E i \in locals :
          LET t == trace_pptrs_endianned(file[i]) IN
          /\ Len(t) = 2
          /\ ~is_local(t[1])
          /\ is_local(t[2])
          /\ t[2].m_PathID \notin Roots

(***************************************************************************)
(* ArchivePath (addressables/archive_path.rs).                             *)
(*                                                                         *)
(* A path is a sequence of tokens: "/" is the separator, every other token *)
(* is a piece of a file name, and adjacent pieces form one name.           *)
(* "\\xFF" stands for a byte sequence that is not UTF-8.                   *)
(***************************************************************************)
PathTokens == {"archive:", "/", "B", "F", "\\xFF"}

RECURSIVE SplitSlash(_, _)
\* the names between separators; cur is the name being read
SplitSlash(p, cur) ==
    IF p = <<>> THEN (IF cur = <<>> THEN <<>> ELSE <<cur>>)
    ELSE IF Head(p) = "/"
         THEN (IF cur = <<>> THEN <<>> ELSE <<cur>>) \o SplitSlash(Tail(p), <<>>)
         ELSE SplitSlash(Tail(p), Append(cur, Head(p)))

\* std::path::Path::components: a leading separator is the root component,
\* repeated and trailing separators are dropped
Components(p) ==
    (IF p # <<>> /\ Head(p) = "/" THEN <<(<<"/">>)>> ELSE <<>>) \o SplitSlash(p, <<>>)

\* std::path::Path::strip_prefix("archive:"): component-wise
strip_prefix(p) ==
    LET c == Components(p) IN
    IF c # <<>> /\ Head(c) = <<"archive:">>
    THEN [ok |-> TRUE, inner |-> Tail(c)]
    ELSE [ok |-> FALSE, inner |-> <<>>]

\* OsStr::to_str: None for a name that is not UTF-8
to_str(name) == IF "\\xFF" \in Range(name) THEN "none" ELSE "some"

\* try_parse::parse_inner
parse_inner(inner) ==
    IF Len(inner) < 1 \/ to_str(inner[1]) = "none" THEN [kind |-> "None"]
    ELSE IF Len(inner) < 2 \/ to_str(inner[2]) = "none" THEN [kind |-> "None"]
    ELSE [kind |-> "Some", bundle |-> inner[1], file |-> inner[2]]

\* try_parse with the missing segment mapped to Ok(None) instead of Err
try_parse_total(p) ==
    LET s == strip_prefix(p) IN
    IF ~s.ok THEN [kind |-> "None"]
    ELSE parse_inner(s.inner)

\* try_parse reading the file name from the first segment
try_parse_same(p) ==
    LET s == strip_prefix(p) IN
    IF ~s.ok THEN [kind |-> "None"]
    ELSE LET v == parse_inner(s.inner) IN
         IF v.kind = "None" THEN [kind |-> "Err"]
         ELSE [kind |-> "Some", bundle |-> v.bundle, file |-> v.bundle]

\* ArchivePath::try_parse
try_parse(p) ==
    LET s == strip_prefix(p) IN
    IF ~s.ok THEN [kind |-> "None"]
    ELSE LET v == parse_inner(s.inner) IN
         IF v.kind = "None" THEN [kind |-> "Err"] ELSE v

\* impl Display for ArchivePath: archive:/{bundle}/{file}
to_string(b, f) == <<"archive:", "/">> \o b \o <<"/">> \o f

call_try_parse ==
    /\ ap_result.kind = "pending"
    /\ ap_result' = try_parse(ap_path)
    /\ UNCHANGED ap_path
    /\ UNCHANGED <<reachVars, cacheVars, pruneVars, lookupVars, catalogVars, indexVars, derefVars, foldVars>>

IdleReach ==
    /\ file = <<>>
    /\ from = <<>>
    /\ queue = <<>>
    /\ locals = {}
    /\ externals = {}
    /\ expanded = <<>>
    /\ rpc = "idle"

InitParse ==
    /\ IdleLookup
    /\ IdleReach
    /\ IdleCache
    /\ IdleCatalog
    /\ IdleIndex
    /\ IdleDeref
    /\ IdleFold
    /\ IdlePrune
    /\ ap_path \in SeqsUpTo(PathTokens, MaxPathLen)
    /\ ap_result = [kind |-> "pending"]

NextParse == call_try_parse

SpecParse == InitParse /\ [][NextParse]_vars

\* a file name: one or more pieces, none of them a separator
IsName(n) == n # <<>> /\ "/" \notin Range(n) /\ "\\xFF" \notin Range(n)

\* the path is archive:/B/F for names B and F
IsTwoSegment(p) ==
    \E i \in 3..Len(p) :
        /\ p[1] = "archive:" /\ p[2] = "/" /\ p[i] = "/"
        /\ IsName(SubSeq(p, 3, i - 1))
        /\ IsName(SubSeq(p, i + 1, Len(p)))

\* the path is archive:/B for a name B
IsOneSegment(p) ==
    /\ Len(p) >= 3
    /\ p[1] = "archive:" /\ p[2] = "/"
    /\ IsName(SubSeq(p, 3, Len(p)))

StartsWithArchive(p) == p # <<>> /\ p[1] = "archive:"

TwoSegmentParsed ==
    IsTwoSegment(ap_path) =>
        \E i \in 3..Len(ap_path) :
            /\ ap_path[i] = "/"
            /\ ap_result = [kind |-> "Some", bundle |-> SubSeq(ap_path, 3, i - 1),
                            file |-> SubSeq(ap_path, i + 1, Len(ap_path))]

\* C6 as stated: archive:/B/F parses to {B, F}; archive:/B and every path
\* without the archive: prefix parse to None, never to an error.
C6_SingleSegmentIsNone ==
    ap_result.kind \notin {"pending", "idle"} =>
        /\ TwoSegmentParsed
        /\ IsOneSegment(ap_path) => ap_result.kind = "None"
        /\ ~StartsWithArchive(ap_path) => ap_result.kind = "None"

\* What the code does with the single segment: Err(InvalidArchivePath).
C6_SingleSegmentIsErr ==
    ap_result.kind \notin {"pending", "idle"} =>
        /\ TwoSegmentParsed
        /\ IsOneSegment(ap_path) => ap_result.kind = "Err"
        /\ ~StartsWithArchive(ap_path) => ap_result.kind = "None"

C6_Witness ==
    /\ IsOneSegment(ap_path)
    /\ ap_result.kind = "Err"

(***************************************************************************)
(* Environment: the cache of serialized files (env.rs).                    *)
(*                                                                         *)
(* The game directory holds the loose files globalgamemanagers and level0  *)
(* and, under StreamingAssets/aa, one bundle b1.bundle with the members    *)
(* cabA, cabA.sharedAssets (serialized files) and cabA.resS (a resource).  *)
(***************************************************************************)
Threads == 1..NumThreads

GGM == <<"globalgamemanagers">>
LEVEL0 == <<"level0">>
NOFILE == <<"nofile">>
CAB == <<"cabA">>
SHARED == <<"cabA", ".sharedAssets">>
RESS == <<"cabA", ".resS">>
A_MAIN == to_string(CAB, CAB)
A_SHARED == to_string(CAB, SHARED)
A_ABSENT == to_string(CAB, <<"zzz">>)
A_NOCAB == to_string(<<"nocab">>, <<"nocab">>)
A_BAD == <<"archive:", "/", "cabA">>

\* the paths callers ask load_external_file for
CallPaths == {LEVEL0, NOFILE, A_MAIN, A_ABSENT, A_NOCAB, A_BAD}
\* the paths whose bytes exist and can be read and parsed
ReadPaths == {GGM, LEVEL0, A_MAIN, A_SHARED}

LooseFiles == {GGM, LEVEL0}
B1 == "b1.bundle"
BundleNames == {B1, "nobundle"}
\* BundleFileReader::files of a bundle
BundleFiles(b) ==
    IF b = B1
    THEN <<[path |-> CAB, serialized |-> TRUE],
           [path |-> SHARED, serialized |-> TRUE],
           [path |-> RESS, serialized |-> FALSE]>>
    ELSE <<>>

\* BundleFileReader::serialized_files
serialized_entries(b) == SelectSeq(BundleFiles(b), LAMBDA f : f.serialized)

\* AddressablesData::cab_to_bundle as addressables_bundle_lookup builds it:
\* every member name of every bundle file, mapped to its bundle
cab_to_bundle(name) ==
    LET owners == {b \in {B1} : \E i \in 1..Len(BundleFiles(b)) : BundleFiles(b)[i].path = name}
    IN IF owners = {} THEN "none" ELSE CHOOSE b \in owners : TRUE

\* BundleFileReader::read_at(name): Some iff the bundle has the member
read_at(b, name) == \E i \in 1..Len(BundleFiles(b)) : BundleFiles(b)[i].path = name

\* Path::extension().is_some()
has_extension(name) == Len(name) > 1

\* str::ends_with(".sharedAssets")
ends_with_sharedAssets(name) == name[Len(name)] = ".sharedAssets"

\* the m_UnityVersion a parse of the path's bytes yields: present or not
HeaderVersion(p) ==
    IF p = GGM THEN disk.ggm_ver
    ELSE IF p \in {A_MAIN, A_SHARED} THEN disk.cab_ver
    ELSE TRUE

NoEntry == [id |-> 0, ver |-> FALSE, by |-> "none"]

\* SerializedFile::from_reader on the bytes of p: a new file object, the
\* n-th made from these bytes
Parsed(p, by) == [id |-> reads[p] + 1, ver |-> HeaderVersion(p), by |-> by]

\* m_UnityVersion.get_or_insert(self.unity_version()?.clone())
get_or_insert(e) == [e EXCEPT !.ver = TRUE]

\* FrozenMap::get that never finds the key
get_never(m, k) == [some |-> FALSE, e |-> NoEntry]

\* FrozenMap::get
get(m, k) == IF k \in DOMAIN m THEN [some |-> TRUE, e |-> m[k]] ELSE [some |-> FALSE, e |-> NoEntry]

\* a map insert that replaces the value of a present key
insert_overwrite(m, k, v) == [x \in DOMAIN m \cup {k} |-> IF x = k THEN v ELSE m[x]]

\* FrozenMap::insert: insert-if-absent, the present value stays
insert(m, k, v) == IF k \in DOMAIN m THEN m ELSE m @@ (k :> v)

NewCall(op, p, arg) == [op |-> op, path |-> p, arg |-> arg, res |-> "run", e |-> NoEntry, rd |-> 0]
NoCall == NewCall("none", <<>>, 0)

\* the call (op, p) directly follows a call of load_external_file(p) by the
\* same thread that returned a handle
Successive(last, op, p) ==
    /\ op = "load_external_file"
    /\ last.op = "load_external_file"
    /\ last.path = p
    /\ last.res = "ok"

\* the thread record when thread t starts the call (op, p, arg); prev keeps
\* its last call when the two are successive calls of load_external_file
\* for one path
Started(t, op, p, arg, pc, ret) ==
    [pc |-> pc, ret |-> ret, todo |-> 1, cur |-> NewCall(op, p, arg),
     prev |-> IF Successive(thr[t].cur, op, p) THEN thr[t].cur ELSE NoCall]

\* a thread may start a call
CanStart(t) == thr[t].pc = "idle" /\ calls < MaxCalls

\* what a thread keeps of a finished call: the handle of a successful
\* load_external_file or insert_cache, otherwise the kind of result only
Kept(c) ==
    IF c.res = "ok" /\ c.op \in {"load_external_file", "insert_cache"} THEN c
    ELSE [NoCall EXCEPT !.res = c.res]

\* the thread record when its call returns res (and the handle e when Ok),
\* having read and parsed the bytes of its path rd more times
Returned(r, res, e, rd) ==
    [r EXCEPT !.pc = IF res = "panic" THEN "panicked" ELSE "idle",
              !.ret = "none", !.todo = 1,
              !.cur = Kept([@ EXCEPT !.res = res, !.e = e, !.rd = @ + rd])]

Return(t, res, e, rd) == thr' = [thr EXCEPT ![t] = Returned(thr[t], res, e, rd)]

Goto(t, pc) == thr' = [thr EXCEPT ![t].pc = pc]

\* one more read-and-parse of the bytes of p
CountRead(p) == reads' = [reads EXCEPT ![p] = @ + 1]

------------------------------------------------------------------------------
\* load_external_file / load_cached: self.serialized_files.get(path_name),
\* and on a miss ArchivePath::try_parse(path_name)?
load_external_file_get(t, p) ==
    /\ CanStart(t)
    /\ calls' = calls + 1
    /\ LET r == Started(t, "load_external_file", p, 0, "lef_get", "none")
           g == get(serialized_files, p)
           a == try_parse(p) IN
       thr' = [thr EXCEPT ![t] =
                  IF g.some THEN Returned(r, "ok", g.e, 0)
                  ELSE IF a.kind = "Err" THEN Returned(r, "err", NoEntry, 0)
                  ELSE IF a.kind = "Some" THEN [r EXCEPT !.pc = "aa_get", !.ret = "lef_member"]
                  ELSE [r EXCEPT !.pc = "lef_loose"]]
    /\ UNCHANGED <<serialized_files, unity_version, addressables, disk, reads>>
    /\ UNCHANGED <<reachVars, parseVars, pruneVars, lookupVars, catalogVars, indexVars, derefVars, foldVars>>

\* load_external_file: the loose file branch (read_path, from_reader, insert)
load_external_file_loose(t) ==
    /\ thr[t].pc = "lef_loose"
    /\ LET p == thr[t].cur.path IN
       IF p \notin LooseFiles
       THEN /\ Return(t, "err", NoEntry, 0)
            /\ UNCHANGED <<serialized_files, reads>>
       ELSE /\ CountRead(p)
            /\ serialized_files' = insert(serialized_files, p, Parsed(p, "load_external_file"))
            /\ Return(t, "ok", serialized_files'[p], 1)
    /\ UNCHANGED <<unity_version, addressables, disk, calls>>
    /\ UNCHANGED <<reachVars, parseVars, pruneVars, lookupVars, catalogVars, indexVars, derefVars, foldVars>>

\* load_external_file: the archive branch after self.addressables()?
load_external_file_member(t) ==
    /\ thr[t].pc = "lef_member"
    /\ LET p == thr[t].cur.path
           cab == try_parse(p)
           cab_bundle == cab_to_bundle(cab.bundle) IN
       IF addressables = "none" \/ cab_bundle = "none"
       THEN /\ Return(t, "err", NoEntry, 0)
            /\ UNCHANGED <<serialized_files, reads>>
       ELSE IF ~read_at(cab_bundle, cab.file)
       THEN \* .expect("cab unexpectedly not present")
            /\ Return(t, "panic", NoEntry, 0)
            /\ UNCHANGED <<serialized_files, reads>>
       ELSE /\ CountRead(p)
            /\ serialized_files' =
                   insert(serialized_files, p, get_or_insert(Parsed(p, "load_external_file")))
            /\ Return(t, "ok", serialized_files'[p], 1)
    /\ UNCHANGED <<unity_version, addressables, disk, calls>>
    /\ UNCHANGED <<reachVars, parseVars, pruneVars, lookupVars, catalogVars, indexVars, derefVars, foldVars>>

------------------------------------------------------------------------------
\* addressables(): self.addressables.get(), and on None the start of
\* AddressablesData::read (no StreamingAssets/aa: the data is None)
addressables_entered(r) ==
    IF addressables # "unset" THEN [r EXCEPT !.pc = r.ret]
    ELSE IF ~disk.has_aa THEN [r EXCEPT !.pc = "aa_init"]
    ELSE [r EXCEPT !.pc = "uv_get"]

\* addressables() as called by load_external_file for an archive path
addressables_get(t) ==
    /\ thr[t].pc = "aa_get"
    /\ thr' = [thr EXCEPT ![t] = addressables_entered(thr[t])]
    /\ UNCHANGED <<serialized_files, unity_version, addressables, disk, reads, calls>>
    /\ UNCHANGED <<reachVars, parseVars, pruneVars, lookupVars, catalogVars, indexVars, derefVars, foldVars>>

\* unity_version(): self.unity_version.get(), and on None the
\* serialized_files.get of load_cached("globalgamemanagers")
unity_version_get(t) ==
    /\ thr[t].pc = "uv_get"
    /\ IF unity_version = "set" THEN Goto(t, "aa_init")
       ELSE Goto(t, "uv_ggm_get")
    /\ UNCHANGED <<serialized_files, unity_version, addressables, disk, reads, calls>>
    /\ UNCHANGED <<reachVars, parseVars, pruneVars, lookupVars, catalogVars, indexVars, derefVars, foldVars>>

\* unity_version(): load_cached("globalgamemanagers") looks the file up
unity_version_ggm_get(t) ==
    /\ thr[t].pc = "uv_ggm_get"
    /\ LET g == get(serialized_files, GGM) IN
       IF ~g.some THEN Goto(t, "uv_ggm_load")
       ELSE IF ~g.e.ver THEN Return(t, "err", NoEntry, 0)
       ELSE Goto(t, "uv_set")
    /\ UNCHANGED <<serialized_files, unity_version, addressables, disk, reads, calls>>
    /\ UNCHANGED <<reachVars, parseVars, pruneVars, lookupVars, catalogVars, indexVars, derefVars, foldVars>>

\* unity_version(): load_cached("globalgamemanagers") reads, parses and
\* inserts the file; a file without version tag is an error
unity_version_ggm_load(t) ==
    /\ thr[t].pc = "uv_ggm_load"
    /\ CountRead(GGM)
    /\ serialized_files' = insert(serialized_files, GGM, Parsed(GGM, "load_external_file"))
    /\ IF ~serialized_files'[GGM].ver
       THEN Return(t, "err", NoEntry, 0)
       ELSE Goto(t, "uv_set")
    /\ UNCHANGED <<unity_version, addressables, disk, calls>>
    /\ UNCHANGED <<reachVars, parseVars, pruneVars, lookupVars, catalogVars, indexVars, derefVars, foldVars>>

\* unity_version(): self.unity_version.set(unity_version)
unity_version_set(t) ==
    /\ thr[t].pc = "uv_set"
    /\ unity_version' = "set"
    /\ Goto(t, "aa_init")
    /\ UNCHANGED <<serialized_files, addressables, disk, reads, calls>>
    /\ UNCHANGED <<reachVars, parseVars, pruneVars, lookupVars, catalogVars, indexVars, derefVars, foldVars>>

\* addressables(): self.addressables.get_or_init(|| data)
addressables_get_or_init(t) ==
    /\ thr[t].pc = "aa_init"
    /\ addressables' = IF addressables # "unset" THEN addressables
                       ELSE IF disk.has_aa THEN "some" ELSE "none"
    /\ Goto(t, thr[t].ret)
    /\ UNCHANGED <<serialized_files, unity_version, disk, reads, calls>>
    /\ UNCHANGED <<reachVars, parseVars, pruneVars, lookupVars, catalogVars, indexVars, derefVars, foldVars>>

------------------------------------------------------------------------------
\* bundle_main_serializedfile: the first serialized file that does not end
\* with .sharedAssets
bundle_main_serializedfile(b) ==
    LET c == SelectSeq(serialized_entries(b), LAMBDA f : ~ends_with_sharedAssets(f.path))
    IN IF c = <<>> THEN <<>> ELSE Head(c).path

\* load_addressables_bundle_content: entry, up to self.addressables.get()
call_load_addressables_bundle_content(t, b) ==
    /\ CanStart(t)
    /\ calls' = calls + 1
    /\ thr' = [thr EXCEPT ![t] = addressables_entered(
                  Started(t, "load_addressables_bundle_content", <<>>, b, "aa_get", "labc_load"))]
    /\ UNCHANGED <<serialized_files, unity_version, addressables, disk, reads>>
    /\ UNCHANGED <<reachVars, parseVars, pruneVars, lookupVars, catalogVars, indexVars, derefVars, foldVars>>

\* load_addressables_bundle_content after addressables(): open the bundle,
\* read and parse its main file, backfill the version, insert_cache
load_addressables_bundle_content_leaf(t) ==
    /\ thr[t].pc = "labc_load"
    /\ LET b == thr[t].cur.arg
           name == bundle_main_serializedfile(b)
           p == to_string(name, name) IN
       IF addressables = "none" \/ b # B1 \/ name = <<>>
       THEN /\ Return(t, "err", NoEntry, 0)
            /\ UNCHANGED <<serialized_files, reads>>
       ELSE /\ CountRead(p)
            /\ serialized_files' =
                   insert(serialized_files, p,
                          get_or_insert(Parsed(p, "load_addressables_bundle_content")))
            /\ Return(t, "ok", serialized_files'[p], 1)
    /\ UNCHANGED <<unity_version, addressables, disk, calls>>
    /\ UNCHANGED <<reachVars, parseVars, pruneVars, lookupVars, catalogVars, indexVars, derefVars, foldVars>>

------------------------------------------------------------------------------
\* load_all_serialized_files: entry, up to self.addressables.get()
call_load_all_serialized_files(t) ==
    /\ CanStart(t)
    /\ calls' = calls + 1
    /\ thr' = [thr EXCEPT ![t] = addressables_entered(
                  Started(t, "load_all_serialized_files", <<>>, 0, "aa_get", "lasf_iter"))]
    /\ UNCHANGED <<serialized_files, unity_version, addressables, disk, reads>>
    /\ UNCHANGED <<reachVars, parseVars, pruneVars, lookupVars, catalogVars, indexVars, derefVars, foldVars>>

\* the bundle_identifier of load_all_serialized_files: the first serialized
\* file whose name has no extension
bundle_identifier(b) ==
    Head(SelectSeq(serialized_entries(b), LAMBDA f : ~has_extension(f.path))).path

\* load_all_serialized_files: one entry of the bundle is read, parsed and
\* put into the cache under archive:/<bundle_identifier>/<entry.path>
load_all_serialized_files_entry(t) ==
    /\ thr[t].pc = "lasf_iter"
    /\ addressables = "some"
    /\ thr[t].todo <= Len(serialized_entries(B1))
    /\ LET entry == serialized_entries(B1)[thr[t].todo]
           p == to_string(bundle_identifier(B1), entry.path) IN
       /\ CountRead(p)
       /\ serialized_files' =
              insert(serialized_files, p, Parsed(p, "load_all_serialized_files"))
       /\ thr' = [thr EXCEPT ![t].todo = @ + 1]
    /\ UNCHANGED <<unity_version, addressables, disk, calls>>
    /\ UNCHANGED <<reachVars, parseVars, pruneVars, lookupVars, catalogVars, indexVars, derefVars, foldVars>>

\* load_all_serialized_files: no addressables, or all entries done
load_all_serialized_files_return(t) ==
    /\ thr[t].pc = "lasf_iter"
    /\ addressables = "none" \/ thr[t].todo > Len(serialized_entries(B1))
    /\ Return(t, "ok", NoEntry, 0)
    /\ UNCHANGED <<serialized_files, unity_version, addressables, disk, reads, calls>>
    /\ UNCHANGED <<reachVars, parseVars, pruneVars, lookupVars, catalogVars, indexVars, derefVars, foldVars>>

------------------------------------------------------------------------------
\* insert_cache(path, file, data) with a file object of the caller
insert_cache(t, p, ver) ==
    /\ CanStart(t)
    /\ calls' = calls + 1
    /\ serialized_files' =
           insert(serialized_files, p, [id |-> 0 - (calls + 1), ver |-> ver, by |-> "insert_cache"])
    /\ thr' = [thr EXCEPT ![t].prev = NoCall,
                          ![t].cur = [NewCall("insert_cache", p, 0 - (calls + 1))
                                          EXCEPT !.res = "ok", !.e = serialized_files'[p]]]
    /\ UNCHANGED <<unity_version, addressables, disk, reads>>
    /\ UNCHANGED <<reachVars, parseVars, pruneVars, lookupVars, catalogVars, indexVars, derefVars, foldVars>>

------------------------------------------------------------------------------
InitCache ==
    /\ IdleLookup
    /\ IdleReach
    /\ IdleParse
    /\ IdleCatalog
    /\ IdleIndex
    /\ IdleDeref
    /\ IdleFold
    /\ IdlePrune
    /\ serialized_files = <<>>
    /\ unity_version = "unset"
    /\ addressables = "unset"
    /\ disk \in [has_aa : BOOLEAN, ggm_ver : BOOLEAN, cab_ver : BOOLEAN]
    /\ thr = [t \in Threads |-> [pc |-> "idle", ret |-> "none", todo |-> 1,
                                 cur |-> NoCall, prev |-> NoCall]]
    /\ reads = [p \in ReadPaths |-> 0]
    /\ calls = 0

Next ==
    \E t \in Threads :
        \/ \E p \in CallPaths : load_external_file_get(t, p)
        \/ load_external_file_loose(t)
        \/ load_external_file_member(t)
        \/ addressables_get(t)
        \/ unity_version_get(t)
        \/ unity_version_ggm_get(t)
        \/ unity_version_ggm_load(t)
        \/ unity_version_set(t)
        \/ addressables_get_or_init(t)
        \/ \E b \in BundleNames : call_load_addressables_bundle_content(t, b)
        \/ load_addressables_bundle_content_leaf(t)
        \/ call_load_all_serialized_files(t)
        \/ load_all_serialized_files_entry(t)
        \/ load_all_serialized_files_return(t)
        \/ \E ver \in BOOLEAN : insert_cache(t, A_MAIN, ver)

Spec == InitCache /\ [][Next]_vars

------------------------------------------------------------------------------
\* C1 as stated: under every interleaving of load_external_file,
\* load_addressables_bundle_content and load_all_serialized_files the bytes of
\* a logical path are read and parsed at most once.
C1_ReadAtMostOnce == \A p \in ReadPaths : reads[p] <= 1

\* C2: the cache is append-only: a step never removes or replaces an entry,
\* and insert_cache on a present key returns the handle of the entry that
\* was there.
C2_AppendOnly ==
    [][/\ \A p \in DOMAIN serialized_files :
              /\ p \in DOMAIN serialized_files'
              /\ serialized_files'[p] = serialized_files[p]
       /\ \A t \in Threads :
              (/\ thr'[t].cur # thr[t].cur
               /\ thr'[t].cur.op = "insert_cache"
               /\ thr'[t].cur.path \in DOMAIN serialized_files)
              => thr'[t].cur.e = serialized_files[thr'[t].cur.path]]_vars

\* insert_cache found the key present and returned the entry that was there,
\* not the file it was given
C2_Witness ==
    \E t \in Threads :
        /\ thr[t].cur.op = "insert_cache"
        /\ thr[t].cur.e.id # thr[t].cur.arg
        /\ thr[t].cur.e = serialized_files[thr[t].cur.path]

\* C3: two successive calls of load_external_file(p) return handles of the
\* identical entry, and both together read the bytes of p at most once.
C3_SuccessiveCallsSameEntry ==
    \A t \in Threads :
        (/\ thr[t].cur.op = "load_external_file"
         /\ thr[t].cur.res = "ok"
         /\ thr[t].prev.op = "load_external_file")
        => /\ thr[t].cur.path = thr[t].prev.path
           /\ thr[t].cur.e = thr[t].prev.e
           /\ thr[t].prev.rd + thr[t].cur.rd <= 1

\* the second of two successive calls has returned, the first one read the
\* bytes
C3_Witness ==
    \E t \in Threads :
        /\ thr[t].cur.op = "load_external_file"
        /\ thr[t].cur.res = "ok"
        /\ thr[t].prev.op = "load_external_file"
        /\ thr[t].prev.rd = 1
        /\ thr[t].cur.rd = 0

\* C4 as stated: load_external_file returns every failure to locate its data
\* as an error; no call panics.
C4_NeverPanics == \A t \in Threads : thr[t].pc # "panicked"

\* C5 as stated: every file that load_external_file,
\* load_addressables_bundle_content or load_all_serialized_files stored under
\* an archive path has its version tag.
C5_ArchiveEntriesHaveVersion ==
    \A p \in DOMAIN serialized_files :
        (StartsWithArchive(p) /\ serialized_files[p].by # "insert_cache")
        => serialized_files[p].ver

\* the archive branch and the bundle content loader run with the Unity
\* version resolved, so their backfill has a value
BackfillHasVersion ==
    \A t \in Threads :
        (thr[t].pc \in {"lef_member", "labc_load"} /\ addressables = "some")
        => unity_version = "set"

(***************************************************************************)
(* Scene pruning (prune.rs).                                               *)
(*                                                                         *)
(* A generated scene holds the Transforms 1..MaxTransforms in a forest,    *)
(* one GameObject per Transform, at most one MonoBehaviour (attached to    *)
(* one GameObject, with a pointer to its script in another file and one    *)
(* more local pointer), and either none or one each of RenderSettings,      *)
(* LightmapSettings and NavMeshSettings.                                   *)
(***************************************************************************)
Transforms == 1..MaxTransforms
GoOf(i) == MaxTransforms + i
ScriptId == 2 * MaxTransforms + 1
SettingsId == 2 * MaxTransforms + 2
MissingId == 2 * MaxTransforms + 3
LightmapId == 2 * MaxTransforms + 4
NavMeshId == 2 * MaxTransforms + 5

\* the classes of the per-scene singleton objects
SCENE_SINGLETON_OBJECTS == {"RenderSettings", "LightmapSettings", "NavMeshSettings"}

\* m_Father of every Transform, 0 for a root; fathers have smaller ids
Forests == {par \in [Transforms -> 0..MaxTransforms] : \A i \in Transforms : par[i] < i}

\* no MonoBehaviour, or one on the GameObject of a that points to d
Scripts ==
    {<<0, 0>>} \cup {<<a, d>> : a \in Transforms, d \in Transforms \cup {MissingId}}

ChildrenOf(par, i) ==
    LET ids == SelectSeq([j \in 1..MaxTransforms |-> j], LAMBDA j : par[j] = i)
    IN [k \in 1..Len(ids) |-> PP(0, ids[k])]

GenScene(par, script, settings) ==
    [id \in Transforms \cup {GoOf(i) : i \in Transforms}
            \cup (IF script[1] # 0 THEN {ScriptId} ELSE {})
            \cup (IF settings THEN {SettingsId, LightmapId, NavMeshId} ELSE {}) |->
        IF id \in Transforms
        THEN Obj("Transform", "", GoOf(id), par[id], ChildrenOf(par, id), <<>>)
        ELSE IF id = ScriptId
        THEN Obj("MonoBehaviour", "", GoOf(script[1]), 0, <<>>,
                 <<PP(0, GoOf(script[1])), PP(1, 1), PP(0, script[2])>>)
        ELSE IF id = SettingsId
        THEN Obj("RenderSettings", "", 0, 0, <<>>, <<>>)
        ELSE IF id = LightmapId
        THEN Obj("LightmapSettings", "", 0, 0, <<>>, <<>>)
        ELSE IF id = NavMeshId
        THEN Obj("NavMeshSettings", "", 0, 0, <<>>, <<>>)
        ELSE Obj("GameObject", "", 0, 0, <<>>,
                 <<PP(0, id - MaxTransforms)>>
                 \o (IF script[1] = id - MaxTransforms THEN <<PP(0, ScriptId)>> ELSE <<>>))]

RECURSIVE transform_ancestors(_, _)
\* Transform::ancestors: the father, its father, ... up to a root; the
\* Transform itself is not among them
transform_ancestors(f, id) ==
    IF f[id].m_Father = 0 THEN <<>>
    ELSE <<f[id].m_Father>> \o transform_ancestors(f, f[id].m_Father)

RECURSIVE collect_ancestors_without_insert(_, _, _)
\* the inner loop with contains in place of insert: the ancestors are
\* collected and all_reachable is left as it was
collect_ancestors_without_insert(anc, reach, acc) ==
    IF anc = <<>> THEN <<reach, acc>>
    ELSE IF Head(anc) \in reach THEN <<reach, acc>>
    ELSE collect_ancestors_without_insert(Tail(anc), reach, Append(acc, Head(anc)))

RECURSIVE collect_ancestors(_, _, _)
\* the inner loop over transform.ancestors(): stops at the first ancestor
\* that is in all_reachable already; returns <<all_reachable, ancestors>>
collect_ancestors(anc, reach, acc) ==
    IF anc = <<>> THEN <<reach, acc>>
    ELSE IF Head(anc) \in reach THEN <<reach, acc>>
    ELSE collect_ancestors(Tail(anc), reach \cup {Head(anc)}, Append(acc, Head(anc)))

\* adjust_ancestor that leaves m_Children as it was
adjust_ancestor_keeps_children(repl, reach, id, transform) ==
    [all_reachable |-> reach \cup {transform.m_GameObject},
     panic |-> id \in DOMAIN repl,
     replacements |-> IF id \in DOMAIN repl THEN repl ELSE repl @@ (id :> transform)]

\* adjust_ancestor with the test of retain inverted: the children that are
\* in all_reachable are dropped
adjust_ancestor_drops_reachable(repl, reach, id, transform) ==
    LET modified ==
            [transform EXCEPT !.m_Children =
                SelectSeq(@, LAMBDA child : child.m_PathID \notin reach)]
    IN [all_reachable |-> reach \cup {transform.m_GameObject},
        panic |-> id \in DOMAIN repl,
        replacements |-> IF id \in DOMAIN repl THEN repl ELSE repl @@ (id :> modified)]

\* adjust_ancestor: retain the children that are in all_reachable, insert
\* the GameObject, assert!(replacements.insert(id, ..).is_none())
adjust_ancestor(repl, reach, id, transform) ==
    LET modified ==
            [transform EXCEPT !.m_Children =
                SelectSeq(@, LAMBDA child : child.m_PathID \in reach)]
    IN [all_reachable |-> reach \cup {transform.m_GameObject},
        panic |-> id \in DOMAIN repl,
        replacements |-> IF id \in DOMAIN repl THEN repl ELSE repl @@ (id :> modified)]

\* adjust_kept: with disable, the root's GameObject is rewritten inactive,
\* assert!(replacements.insert(go.info.m_PathID, ..).is_none())
adjust_kept(repl, f, transform, disable) ==
    LET go == transform.m_GameObject IN
    IF ~disable THEN [panic |-> FALSE, replacements |-> repl]
    ELSE [panic |-> go \in DOMAIN repl,
          replacements |-> IF go \in DOMAIN repl THEN repl
                           ELSE repl @@ (go :> [f[go] EXCEPT !.m_IsActive = FALSE])]

------------------------------------------------------------------------------
\* prune_scene_inner: reachable::reachable(env, file, reader, retain_ids)
\* .context("Could not determine reachable nodes")?
prune_reachable ==
    /\ ppc = "reachable"
    /\ rpc \in {"done", "error", "panic"}
    /\ IF rpc = "done"
       THEN /\ all_reachable' = locals
            /\ ppc' = "ancestors"
       ELSE /\ ppc' = rpc
            /\ UNCHANGED all_reachable
    /\ UNCHANGED <<retain_objects, disable_roots, ancestors, replacements, pi>>
    /\ UNCHANGED <<reachVars, parseVars, cacheVars, lookupVars, catalogVars, indexVars, derefVars, foldVars>>

\* the ancestors of one kept Transform, up to the first one already in
\* all_reachable
prune_ancestors ==
    /\ ppc = "ancestors"
    /\ pi <= Len(retain_objects)
    /\ LET r == collect_ancestors(transform_ancestors(file, retain_objects[pi]),
                                  all_reachable, ancestors) IN
       /\ all_reachable' = r[1]
       /\ ancestors' = r[2]
    /\ pi' = pi + 1
    /\ UNCHANGED <<retain_objects, disable_roots, replacements, ppc>>
    /\ UNCHANGED <<reachVars, parseVars, cacheVars, lookupVars, catalogVars, indexVars, derefVars, foldVars>>

\* all kept Transforms done: file.get_typetree_for_class(Transform::CLASS_ID)
prune_ancestors_end ==
    /\ ppc = "ancestors"
    /\ pi > Len(retain_objects)
    /\ ppc' = "adjust_ancestor"
    /\ pi' = 1
    /\ UNCHANGED <<retain_objects, disable_roots, all_reachable, ancestors, replacements>>
    /\ UNCHANGED <<reachVars, parseVars, cacheVars, lookupVars, catalogVars, indexVars, derefVars, foldVars>>

\* for (id, transform) in ancestors { adjust_ancestor(..)? }
prune_adjust_ancestor ==
    /\ ppc = "adjust_ancestor"
    /\ pi <= Len(ancestors)
    /\ LET r == adjust_ancestor(replacements, all_reachable, ancestors[pi], file[ancestors[pi]]) IN
       /\ all_reachable' = r.all_reachable
       /\ replacements' = r.replacements
       /\ ppc' = IF r.panic THEN "panic" ELSE ppc
    /\ pi' = pi + 1
    /\ UNCHANGED <<retain_objects, disable_roots, ancestors>>
    /\ UNCHANGED <<reachVars, parseVars, cacheVars, lookupVars, catalogVars, indexVars, derefVars, foldVars>>

\* all ancestors adjusted: every RenderSettings object is inserted
prune_settings ==
    /\ ppc = "adjust_ancestor"
    /\ pi > Len(ancestors)
    /\ all_reachable' = all_reachable \cup {id \in DOMAIN file : file[id].class = "RenderSettings"}
    /\ ppc' = "adjust_kept"
    /\ pi' = 1
    /\ UNCHANGED <<retain_objects, disable_roots, ancestors, replacements>>
    /\ UNCHANGED <<reachVars, parseVars, cacheVars, lookupVars, catalogVars, indexVars, derefVars, foldVars>>

\* for (_, root_transform) in &retain_objects { adjust_kept(..)? }
prune_adjust_kept ==
    /\ ppc = "adjust_kept"
    /\ pi <= Len(retain_objects)
    /\ LET r == adjust_kept(replacements, file, file[retain_objects[pi]], disable_roots) IN
       /\ replacements' = r.replacements
       /\ ppc' = IF r.panic THEN "panic" ELSE ppc
    /\ pi' = pi + 1
    /\ UNCHANGED <<retain_objects, disable_roots, all_reachable, ancestors>>
    /\ UNCHANGED <<reachVars, parseVars, cacheVars, lookupVars, catalogVars, indexVars, derefVars, foldVars>>

\* Ok(PruneSceneResult { reachable: all_reachable, roots: retain_objects })
prune_return ==
    /\ ppc = "adjust_kept"
    /\ pi > Len(retain_objects)
    /\ ppc' = "done"
    /\ UNCHANGED <<retain_objects, disable_roots, all_reachable, ancestors, replacements, pi>>
    /\ UNCHANGED <<reachVars, parseVars, cacheVars, lookupVars, catalogVars, indexVars, derefVars, foldVars>>

\* prune_scene_inner is entered with the kept Transforms of a scene and an
\* empty replacements map
InitPrune ==
    /\ IdleParse
    /\ IdleCatalog
    /\ IdleIndex
    /\ IdleDeref
    /\ IdleFold
    /\ IdleLookup
    /\ IdleCache
    /\ \E par \in Forests, script \in Scripts, settings \in BOOLEAN :
          file = GenScene(par, script, settings)
    /\ retain_objects \in SeqsUpTo(Transforms, MaxKeep)
    /\ disable_roots \in BOOLEAN
    /\ from = retain_objects
    /\ queue = from
    /\ locals = {}
    /\ externals = {}
    /\ expanded = <<>>
    /\ rpc = "loop"
    /\ all_reachable = {}
    /\ ancestors = <<>>
    /\ replacements = <<>>
    /\ ppc = "reachable"
    /\ pi = 1

NextPrune ==
    \/ reachable_loop
    \/ reachable_panic
    \/ reachable_error
    \/ reachable_return
    \/ prune_reachable
    \/ prune_ancestors
    \/ prune_ancestors_end
    \/ prune_adjust_ancestor
    \/ prune_settings
    \/ prune_adjust_kept
    \/ prune_return

SpecPrune == InitPrune /\ [][NextPrune]_vars

\* the hierarchy is Root -> A, B and only A is kept
RootWithTwo(Root, A, B) ==
    /\ A # B
    /\ file[Root].m_Father = 0
    /\ Range(file[Root].m_Children) = {PP(0, A), PP(0, B)}
    /\ retain_objects = <<A>>

\* C10 as stated: Root gets a replacement whose child list is A alone, and
\* B is not in the reachable set unless a pointer chain from A reaches it.
C10_RootChildListOnlyA ==
    ppc = "done" =>
        \A Root \in Transforms, A \in Transforms, B \in Transforms :
            RootWithTwo(Root, A, B) =>
                /\ Root \in DOMAIN replacements
                /\ replacements[Root].m_Children = <<PP(0, A)>>
                /\ B \notin LeastClosed(file, {A}) => B \notin all_reachable

\* C10 amended: when no pointer chain from A reaches B, Root gets a
\* replacement whose child list is A alone and B is not in the reachable
\* set; when one does, B is in the reachable set and stays in Root's child
\* list, and Root gets no replacement if a chain from A reaches Root itself.
C10_RootKeepsReachableChildren ==
    ppc = "done" =>
        \A Root \in Transforms, A \in Transforms, B \in Transforms :
            RootWithTwo(Root, A, B) =>
                IF B \notin LeastClosed(file, {A})
                THEN /\ Root \in DOMAIN replacements
                     /\ replacements[Root].m_Children = <<PP(0, A)>>
                     /\ B \notin all_reachable
                ELSE /\ B \in all_reachable
                     /\ Root \in DOMAIN replacements <=> Root \notin LeastClosed(file, {A})
                     /\ Root \in DOMAIN replacements
                            => replacements[Root].m_Children = file[Root].m_Children

\* pruning Root -> A, B with A kept has returned; B was dropped from Root's
\* child list, in a scene whose MonoBehaviour hangs on B
C10_Witness ==
    /\ ppc = "done"
    /\ \E Root \in Transforms, A \in Transforms, B \in Transforms :
          /\ RootWithTwo(Root, A, B)
          /\ B \notin all_reachable
          /\ Root \in DOMAIN replacements
          /\ replacements[Root].m_Children = <<PP(0, A)>>
          /\ ScriptId \in DOMAIN file
          /\ file[ScriptId].m_GameObject = GoOf(B)

\* C11 as stated: for every keep-set the reachable set that pruning returns
\* holds every RenderSettings, LightmapSettings and NavMeshSettings object of
\* the file.
C11_SingletonsRetained ==
    ppc = "done" =>
        \A id \in DOMAIN file :
            file[id].class \in SCENE_SINGLETON_OBJECTS => id \in all_reachable

\* what prune_scene_inner retains: the RenderSettings objects
RenderSettingsRetained ==
    ppc = "done" =>
        \A id \in DOMAIN file :
            file[id].class = "RenderSettings" => id \in all_reachable

(***************************************************************************)
(* Scene lookup (scene_lookup.rs).                                         *)
(*                                                                         *)
(* A path is the sequence of its '/'-separated segments; str::split yields *)
(* at least one segment.  The scenes are the generated forests with every  *)
(* GameObject named.                                                       *)
(***************************************************************************)
Names == {"a", "b"}
\* the segments of the paths looked up: the names and one no object has
Segments == Names \cup {"zz"}

\* the scene f with the GameObject of Transform i named names[i]
NamedScene(f, names) ==
    [id \in DOMAIN f |->
        IF f[id].class = "GameObject"
        THEN [f[id] EXCEPT !.m_Name = names[id - MaxTransforms]]
        ELSE f[id]]

RECURSIVE SortedSeq(_)
SortedSeq(S) ==
    IF S = {} THEN <<>>
    ELSE LET m == CHOOSE x \in S : \A y \in S : x <= y
         IN <<m>> \o SortedSeq(S \ {m})

\* file.objects_of::<Transform>(): the Transforms in the order of the object table
objects_of_Transform(f) == SortedSeq({id \in DOMAIN f : f[id].class = "Transform"})

\* transform.m_GameObject.deref_local(..).read(..).m_Name
go_name(f, t) == f[f[t].m_GameObject].m_Name

RootLookup(kind, index, items) == [kind |-> kind, index |-> index, items |-> items]

RECURSIVE new_roots(_, _, _, _)
\* the loop of SceneLookup::new over the Transforms ts: a Transform with a
\* father is skipped, a root is pushed and entered under its name; returns
\* <<roots, roots_lookup>>
new_roots(f, ts, rts, rl) ==
    IF ts = <<>> THEN <<rts, rl>>
    ELSE LET t == Head(ts) IN
         IF f[t].m_Father # 0 THEN new_roots(f, Tail(ts), rts, rl)
         ELSE LET name == go_name(f, t)
                  index == Len(rts) + 1
                  entry ==
                      IF name \in DOMAIN rl
                      THEN (IF rl[name].kind = "Ambiguous"
                            THEN RootLookup("Ambiguous", 0, Append(rl[name].items, index))
                            ELSE RootLookup("Ambiguous", 0, <<index>>))
                      ELSE RootLookup("Root", index, <<>>)
              IN new_roots(f, Tail(ts), Append(rts, t),
                           [n \in DOMAIN rl \cup {name} |-> IF n = name THEN entry ELSE rl[n]])

\* the children of Transform t whose GameObject has the name
matching_children(f, t, segment) ==
    LET c == SelectSeq(f[t].m_Children, LAMBDA ch : go_name(f, ch.m_PathID) = segment)
    IN [k \in 1..Len(c) |-> c[k].m_PathID]

RECURSIVE lookup_step_any_name(_, _, _)
\* the segment loop without the comparison of the name
lookup_step_any_name(f, current, segment) ==
    IF current = <<>> THEN <<>>
    ELSE [k \in 1..Len(f[Head(current)].m_Children) |-> f[Head(current)].m_Children[k].m_PathID]
         \o lookup_step_any_name(f, Tail(current), segment)

RECURSIVE lookup_step(_, _, _)
\* one segment of lookup_path: `found`, the children of the current
\* candidates that carry the segment's name, in order
lookup_step(f, current, segment) ==
    IF current = <<>> THEN <<>>
    ELSE matching_children(f, Head(current), segment) \o lookup_step(f, Tail(current), segment)

RECURSIVE lookup_segments(_, _, _)
\* `for segment in segments`: None when no candidate is left, else
\* Ok(current.pop()), the last candidate
lookup_segments(f, current, segments) ==
    IF segments = <<>> THEN [kind |-> "Some", id |-> current[Len(current)]]
    ELSE LET found == lookup_step(f, current, Head(segments)) IN
         IF found = <<>> THEN [kind |-> "None", id |-> 0]
         ELSE lookup_segments(f, found, Tail(segments))

\* SceneLookup::lookup_path
lookup_path(f, rts, rl, path) ==
    LET root_name == Head(path) IN
    IF root_name \notin DOMAIN rl THEN [kind |-> "None", id |-> 0]
    ELSE IF rl[root_name].kind = "Ambiguous" THEN [kind |-> "panic", id |-> 0]
    ELSE lookup_segments(f, <<rts[rl[root_name].index]>>, Tail(path))

\* SceneLookup::new
SceneLookup_new ==
    /\ lpc = "new"
    /\ LET r == new_roots(file, objects_of_Transform(file), <<>>, <<>>) IN
       /\ roots' = r[1]
       /\ roots_lookup' = r[2]
    /\ lpc' = "built"
    /\ UNCHANGED <<retain_paths, lk_path, lk_result>>
    /\ UNCHANGED <<reachVars, parseVars, cacheVars, pruneVars, catalogVars, indexVars, derefVars, foldVars>>

\* a call of lookup_path(lk_path)
call_lookup_path ==
    /\ lpc = "built"
    /\ lk_result.kind = "pending"
    /\ lk_result' = lookup_path(file, roots, roots_lookup, lk_path)
    /\ lpc' = IF lk_result'.kind = "panic" THEN "panic" ELSE "done"
    /\ UNCHANGED <<retain_paths, roots, roots_lookup, lk_path>>
    /\ UNCHANGED <<reachVars, parseVars, cacheVars, pruneVars, catalogVars, indexVars, derefVars, foldVars>>

InitLookup ==
    /\ IdleParse
    /\ IdleCatalog
    /\ IdleIndex
    /\ IdleDeref
    /\ IdleFold
    /\ IdleCache
    /\ IdlePrune
    /\ \E par \in Forests, names \in [Transforms -> Names] :
          file = NamedScene(GenScene(par, <<0, 0>>, FALSE), names)
    /\ from = <<>>
    /\ queue = <<>>
    /\ locals = {}
    /\ externals = {}
    /\ expanded = <<>>
    /\ rpc = "idle"
    /\ retain_paths = <<>>
    /\ roots = <<>>
    /\ roots_lookup = <<>>
    /\ lk_path \in SeqsUpTo(Segments, MaxSegments) \ {<<>>}
    /\ lk_result = [kind |-> "pending"]
    /\ lpc = "new"

NextLookup ==
    \/ SceneLookup_new
    \/ call_lookup_path

SpecLookup == InitLookup /\ [][NextLookup]_vars

\* the root Transforms whose GameObject is named s
RootsNamed(s) ==
    {t \in DOMAIN file : /\ file[t].class = "Transform"
                         /\ file[t].m_Father = 0
                         /\ go_name(file, t) = s}

\* the chains t1, ..., tn for the path s1/.../sn: t1 a root, every t(i+1) a
\* child of t(i), every t(i) named s(i)
Chains(path) ==
    {c \in [1..Len(path) -> {t \in DOMAIN file : file[t].class = "Transform"}] :
        /\ c[1] \in RootsNamed(path[1])
        /\ \A i \in 1..Len(path) : go_name(file, c[i]) = path[i]
        /\ \A i \in 1..(Len(path) - 1) : PP(0, c[i + 1]) \in Range(file[c[i]].m_Children)}

\* C13: when the first segment names exactly one root, lookup_path returns a
\* Transform iff a chain of children with the segments' names leads from
\* that root to it, the returned path_id being the end of such a chain, and
\* not-found when there is no chain.
C13_LookupFollowsChains ==
    (lk_result.kind \notin {"idle", "pending"} /\ Cardinality(RootsNamed(lk_path[1])) = 1)
    => /\ lk_result.kind \in {"Some", "None"}
       /\ lk_result.kind = "Some" <=> Chains(lk_path) # {}
       /\ lk_result.kind = "Some" =>
              \E c \in Chains(lk_path) : c[Len(lk_path)] = lk_result.id

\* a lookup of two segments or more returned one of two Transforms that
\* both match the path
C13_Witness ==
    /\ lk_result.kind = "Some"
    /\ Len(lk_path) >= 2
    /\ Cardinality(RootsNamed(lk_path[1])) = 1
    /\ Cardinality(Chains(lk_path)) = 2

\* C14 as stated: with two or more roots of the name of the first segment,
\* lookup_path reports ambiguous or not found through its return value and
\* does not panic.
C14_AmbiguousRootNeverPanics ==
    (lk_result.kind \notin {"idle", "pending"} /\ Cardinality(RootsNamed(lk_path[1])) >= 2)
    => lk_result.kind # "panic"

(***************************************************************************)
(* prune_scene (prune.rs): SceneLookup::new, the loop over the keep-list,  *)
(* then prune_scene_inner.                                                 *)
(***************************************************************************)
\* the paths of the generated keep-lists
KeepPaths == {<<"a">>, <<"b">>, <<"a", "b">>, <<"a", "zz">>}

\* the keep-list loop with a path that is not found treated as fatal
prune_scene_lookup_aborts ==
    /\ lpc = "built"
    /\ lk_result.kind = "idle"
    /\ pi <= Len(retain_paths)
    /\ LET r == lookup_path(file, roots, roots_lookup, retain_paths[pi]) IN
       /\ retain_objects' = IF r.kind = "Some" THEN Append(retain_objects, r.id)
                            ELSE retain_objects
       /\ lpc' = IF r.kind = "panic" THEN "panic"
                 ELSE IF r.kind = "None" THEN "error" ELSE lpc
    /\ pi' = pi + 1
    /\ UNCHANGED <<retain_paths, roots, roots_lookup, lk_path, lk_result>>
    /\ UNCHANGED <<disable_roots, all_reachable, ancestors, replacements, ppc>>
    /\ UNCHANGED <<reachVars, parseVars, cacheVars, catalogVars, indexVars, derefVars, foldVars>>

\* for path in retain_paths: a found path is pushed to retain_ids and
\* retain_objects, a path that is not found is printed and skipped
prune_scene_lookup ==
    /\ lpc = "built"
    /\ lk_result.kind = "idle"
    /\ pi <= Len(retain_paths)
    /\ LET r == lookup_path(file, roots, roots_lookup, retain_paths[pi]) IN
       /\ retain_objects' = IF r.kind = "Some" THEN Append(retain_objects, r.id)
                            ELSE retain_objects
       /\ lpc' = IF r.kind = "panic" THEN "panic" ELSE lpc
    /\ pi' = pi + 1
    /\ UNCHANGED <<retain_paths, roots, roots_lookup, lk_path, lk_result>>
    /\ UNCHANGED <<disable_roots, all_reachable, ancestors, replacements, ppc>>
    /\ UNCHANGED <<reachVars, parseVars, cacheVars, catalogVars, indexVars, derefVars, foldVars>>

\* the keep-list is done: prune_scene_inner(env, file, reader, retain_ids,
\* retain_objects, replacements, disable_roots)
prune_scene_inner_call ==
    /\ lpc = "built"
    /\ lk_result.kind = "idle"
    /\ pi > Len(retain_paths)
    /\ lpc' = "inner"
    /\ from' = retain_objects
    /\ queue' = retain_objects
    /\ rpc' = "loop"
    /\ ppc' = "reachable"
    /\ pi' = 1
    /\ UNCHANGED <<file, locals, externals, expanded>>
    /\ UNCHANGED <<retain_paths, roots, roots_lookup, lk_path, lk_result>>
    /\ UNCHANGED <<retain_objects, disable_roots, all_reachable, ancestors, replacements>>
    /\ UNCHANGED <<parseVars, cacheVars, catalogVars, indexVars, derefVars, foldVars>>

\* prune_scene is entered with a scene, a keep-list and an empty
\* replacements map
InitPruneScene ==
    /\ IdleParse
    /\ IdleCatalog
    /\ IdleIndex
    /\ IdleDeref
    /\ IdleFold
    /\ IdleCache
    /\ \E par \in Forests, names \in [Transforms -> Names] :
          file = NamedScene(GenScene(par, <<0, 0>>, FALSE), names)
    /\ from = <<>>
    /\ queue = <<>>
    /\ locals = {}
    /\ externals = {}
    /\ expanded = <<>>
    /\ rpc = "idle"
    /\ retain_paths \in SeqsUpTo(KeepPaths, MaxKeep)
    /\ roots = <<>>
    /\ roots_lookup = <<>>
    /\ lk_path = <<>>
    /\ lk_result = [kind |-> "idle"]
    /\ lpc = "new"
    /\ retain_objects = <<>>
    /\ disable_roots \in BOOLEAN
    /\ all_reachable = {}
    /\ ancestors = <<>>
    /\ replacements = <<>>
    /\ ppc = "idle"
    /\ pi = 1

NextPruneScene ==
    \/ SceneLookup_new
    \/ prune_scene_lookup
    \/ prune_scene_inner_call
    \/ reachable_loop
    \/ reachable_error
    \/ reachable_return
    \/ prune_reachable
    \/ prune_ancestors
    \/ prune_ancestors_end
    \/ prune_adjust_ancestor
    \/ prune_settings
    \/ prune_adjust_kept
    \/ prune_return

SpecPruneScene == InitPruneScene /\ [][NextPruneScene]_vars

\* what lookup_path returns for path p in the scene
PathResult(p) ==
    LET r == new_roots(file, objects_of_Transform(file), <<>>, <<>>)
    IN lookup_path(file, r[1], r[2], p)

\* the keep-list without the paths that do not resolve
FoundPaths == SelectSeq(retain_paths, LAMBDA p : PathResult(p).kind = "Some")

\* the Transforms of a keep-list all of whose paths are found
RootsOf(paths) == [i \in 1..Len(paths) |-> PathResult(paths[i]).id]

RECURSIVE all_ancestors(_, _, _, _)
\* the ancestor loop of prune_scene_inner over the kept Transforms rts
all_ancestors(f, rts, reach, acc) ==
    IF rts = <<>> THEN <<reach, acc>>
    ELSE LET r == collect_ancestors(transform_ancestors(f, Head(rts)), reach, acc)
         IN all_ancestors(f, Tail(rts), r[1], r[2])

RECURSIVE all_adjust_ancestor(_, _, _, _)
\* adjust_ancestor over the collected ancestors
all_adjust_ancestor(f, anc, repl, reach) ==
    IF anc = <<>> THEN [all_reachable |-> reach, replacements |-> repl, panic |-> FALSE]
    ELSE LET r == adjust_ancestor(repl, reach, Head(anc), f[Head(anc)]) IN
         IF r.panic THEN r
         ELSE all_adjust_ancestor(f, Tail(anc), r.replacements, r.all_reachable)

RECURSIVE all_adjust_kept(_, _, _, _)
\* adjust_kept over the kept Transforms
all_adjust_kept(f, rts, repl, disable) ==
    IF rts = <<>> THEN [replacements |-> repl, panic |-> FALSE]
    ELSE LET r == adjust_kept(repl, f, f[Head(rts)], disable) IN
         IF r.panic THEN r
         ELSE all_adjust_kept(f, Tail(rts), r.replacements, disable)

\* the result of prune_scene_inner for the kept Transforms rts, from an
\* empty replacements map, when no type tree is missing
PruneResult(f, rts, disable) ==
    LET a == all_ancestors(f, rts, LeastClosed(f, Range(rts)), <<>>)
        b == all_adjust_ancestor(f, a[2], <<>>, a[1])
        k == all_adjust_kept(f, rts, b.replacements, disable)
    IN [reachable |-> b.all_reachable
                      \cup {id \in DOMAIN f : f[id].class = "RenderSettings"},
        roots |-> rts,
        replacements |-> k.replacements,
        panic |-> b.panic \/ k.panic]

\* C12: a keep-list path that is not found does not abort prune_scene: the
\* other paths are processed, and reachable set, roots and replacements are
\* those of pruning with the keep-list without the paths that are not found.
C12_NotFoundPathsAreSkipped ==
    LET ambiguous == \E i \in 1..Len(retain_paths) : PathResult(retain_paths[i]).kind = "panic"
        expected == PruneResult(file, RootsOf(FoundPaths), disable_roots)
    IN /\ lpc \in {"panic", "error"} => ambiguous
       /\ lpc = "inner" => retain_objects = RootsOf(FoundPaths)
       /\ ppc = "done" =>
              /\ all_reachable = expected.reachable
              /\ retain_objects = expected.roots
              /\ replacements = expected.replacements

\* prune_scene has returned for a keep-list whose first path is not found
\* and whose second path is, with an ancestor rewritten
C12_Witness ==
    /\ ppc = "done"
    /\ Len(retain_paths) = 2
    /\ PathResult(retain_paths[1]).kind = "None"
    /\ PathResult(retain_paths[2]).kind = "Some"
    /\ retain_objects = <<PathResult(retain_paths[2]).id>>
    /\ replacements # <<>>

(***************************************************************************)
(* addressables/binary_catalog.rs: the binary catalog decoder.             *)
(*                                                                         *)
(* The byte source is a map from offsets to what is stored there; reading  *)
(* at an offset that holds nothing, or something of another shape, is a    *)
(* read_exact that fails.  A string is the sequence of its tokens, and a   *)
(* separator character is a token.  A u32 is its bit pattern read as a     *)
(* two's complement number, so that 0xFFFFFFFF is -1, x & 0x3fffffff is    *)
(* x % 2^30 and bit 30 of x is (x \div 2^30) % 2.                          *)
(***************************************************************************)
U32_MAX == 0 - 1

DYNAMIC_BIT == 2^30

MAGIC == 233015618

NUL == "NUL"

Separators == {NUL, ".", "/"}

Fragments == {"CoreModule", "Engine", "Unity"}

FragmentAt(f) == CASE f = "CoreModule" -> 10 [] f = "Engine" -> 20 [] f = "Unity" -> 30

Str(bytes) == [t |-> "string", utf8 |-> TRUE, bytes |-> bytes]

Class(a, c) == [t |-> "class", assembly_name |-> a, class_name |-> c]

V2(ty, obj) == [t |-> "v2", type_name_offset |-> ty, object_offset |-> obj]

Array(size, elems) == [t |-> "array", byte_size |-> size, elems |-> elems]

StringObject(s, sep) == [t |-> "string_object", string_offset |-> s, separator |-> sep]

\* offsets of the three ResourceLocations of a generated catalog
LocationOffsets == <<200, 210, 220>>

L(i) == LocationOffsets[i]

Location(deps, data) ==
    [t |-> "location",
     primary_key_offset |-> DYNAMIC_BIT + 101,
     internal_id_offset |-> 30,
     provider_id_offset |-> 20,
     dependencies_offset |-> deps,
     dependency_hash_code |-> 0,
     data_offset |-> data,
     type_offset |-> 77]

Header(fault) ==
    [t |-> "header",
     magic |-> IF fault = "magic" THEN 0 ELSE MAGIC,
     version |-> IF fault = "version" THEN 1 ELSE 2,
     keys_offset |-> 310,
     id_offset |-> IF fault = "utf8" THEN 40 ELSE 51,
     instance_provider_offset |-> 300,
     scene_provider_offset |-> 300,
     init_objects_array_offset |-> 305,
     build_result_hash_offset |-> U32_MAX]

\* the strings, type names, tagged values and objects every generated
\* catalog holds
FixedNodes ==
       10 :> Str(<<"CoreModule">>) @@ 20 :> Str(<<"Engine">>) @@ 30 :> Str(<<"Unity">>)
    @@ 40 :> [t |-> "string", utf8 |-> FALSE, bytes |-> <<>>]
    @@ 50 :> Str(<<"key">>)
    @@ 51 :> Str(<<"AddressablesMainContentCatalog">>)
    @@ 52 :> Str(<<"mscorlib", ",", " Version=4.0.0.0">>)
    @@ 54 :> Str(<<"UnityEngine.CoreModule", ",", " Version=0.0.0.0">>)
    @@ 56 :> Str(<<"Unity.ResourceManager", ",", " Version=0.0.0.0">>)
    @@ 58 :> Str(<<"mscorlib">>)
    @@ 61 :> Str(<<"System.Int32">>)
    @@ 62 :> Str(<<"System.Int64">>)
    @@ 63 :> Str(<<"System.Boolean">>)
    @@ 64 :> Str(<<"System.String">>)
    @@ 65 :> Str(<<"UnityEngine.Hash128">>)
    @@ 66 :> Str(<<"UnityEngine.ResourceManagement.ResourceProviders.AssetBundleRequestOptions">>)
    @@ 67 :> Str(<<"System.Single">>)
    @@ 71 :> Class(52, 61) @@ 72 :> Class(52, 62) @@ 73 :> Class(52, 63)
    @@ 74 :> Class(52, 64) @@ 75 :> Class(54, 65) @@ 76 :> Class(56, 66)
    @@ 77 :> Class(52, 67) @@ 78 :> Class(58, 61)
    @@ 81 :> V2(71, U32_MAX) @@ 82 :> V2(72, U32_MAX) @@ 83 :> V2(73, U32_MAX)
    @@ 84 :> V2(74, U32_MAX) @@ 85 :> V2(75, U32_MAX) @@ 86 :> V2(76, U32_MAX)
    @@ 87 :> V2(77, U32_MAX) @@ 88 :> V2(78, U32_MAX)
    @@ 91 :> V2(71, 111) @@ 92 :> V2(74, 112) @@ 93 :> V2(76, 113) @@ 95 :> V2(74, 116)
    @@ 111 :> [t |-> "i32", value |-> 7]
    @@ 112 :> StringObject(DYNAMIC_BIT + 101, "/")
    @@ 113 :> [t |-> "abro", hash_offset |-> 114, bundle_name_offset |-> 20,
               crc |-> 0, bundle_size |-> 1, common_info_offset |-> 115]
    @@ 114 :> [t |-> "hash128", v |-> <<1, 2, 3, 4>>]
    @@ 115 :> [t |-> "common_info", timeout |-> 0, redirect_limit |-> 0,
               retry_count |-> 0, flags |-> 0]
    @@ 116 :> StringObject(50, "/")
    @@ 120 :> Array(8, <<L(2), L(3)>>)
    @@ 121 :> Array(6, <<L(2), L(3)>>)
    @@ 300 :> [t |-> "object_initialization_data", id_offset |-> 50,
               object_type_offset |-> 77, data_offset |-> U32_MAX]
    @@ 305 :> Array(4, <<300>>)
    @@ 320 :> Array(8, <<L(1), L(2)>>)

\* the linked nodes of a segmented string whose fragments are, in the order
\* the nodes are visited, frags
Chain(frags) ==
    [a \in 101..(100 + Len(frags)) |->
        [t |-> "segment",
         part_offset |-> FragmentAt(frags[a - 100]),
         next_part_offset |-> IF a - 100 < Len(frags) THEN a + 1 ELSE U32_MAX]]

DepsArray(at, d) == IF d = <<>> THEN <<>> ELSE at :> Array(4 * Len(d), d)

DepsOffset(at, d) == IF d = <<>> THEN U32_MAX ELSE at

Faults == {"none", "magic", "version", "misaligned", "unknown_type", "utf8",
           "key_absent", "key_not_string"}

\* a catalog: the segmented string has the fragments frags, L(1) and L(2) have
\* the dependencies deps[1] and deps[2], L(3) has none and is the location of
\* a bundle; fault names the one way in which the catalog is malformed
Catalog(frags, deps, fault) ==
       0 :> Header(fault)
    @@ FixedNodes
    @@ Chain(frags)
    @@ L(1) :> Location(DepsOffset(205, deps[1]), U32_MAX)
    @@ L(2) :> Location(DepsOffset(215, deps[2]), U32_MAX)
    @@ L(3) :> Location(U32_MAX, IF fault = "unknown_type" THEN 87 ELSE 93)
    @@ DepsArray(205, deps[1])
    @@ DepsArray(215, deps[2])
    @@ 310 :> Array(IF fault = "misaligned" THEN 6 ELSE 8,
                    << CASE fault = "key_absent" -> U32_MAX
                         [] fault = "key_not_string" -> 91
                         [] OTHER -> 95,
                       320 >>)

(***************************************************************************)
(* The reader and its cache, as the record the decoding functions pass on: *)
(* seeks and reads count the calls of seek and of read_exact, strings and  *)
(* locations are the two maps of Cache, made lists the offsets of the      *)
(* ResourceLocations built so far, in the order of their Arc::new.         *)
(* A decoding function returns the record after it, and Ok, Err or panic.  *)
(***************************************************************************)
Ok(s, v) == [s |-> s, kind |-> "Ok", val |-> v]

Err(s) == [s |-> s, kind |-> "Err", val |-> <<>>]

Panic(s) == [s |-> s, kind |-> "panic", val |-> <<>>]

seek(s) == [s EXCEPT !.seeks = @ + 1]

read_exact(s, n) == [s EXCEPT !.reads = @ + n]

\* the ? of Rust: e evaluated once, then k on its value unless it is an Err
\* (or a panic, which unwinds the same way)
Try(e, k(_)) == CHOOSE x \in {IF r.kind # "Ok" THEN r ELSE k(r) : r \in {e}} : TRUE

IsNode(o, t) == o \in DOMAIN catalog /\ catalog[o].t = t

\* encoded_offset & 0x40000000 != 0
dynamic_bit(encoded_offset) == (encoded_offset \div DYNAMIC_BIT) % 2 = 1

\* encoded_offset & 0x3fffffff
offset_bits(encoded_offset) == encoded_offset % DYNAMIC_BIT

RECURSIVE reverse(_)
reverse(q) == IF q = <<>> THEN <<>> ELSE Append(reverse(Tail(q)), Head(q))

RECURSIVE join(_, _)
\* [&str]::join
join(parts, sep) ==
    IF parts = <<>> THEN <<>>
    ELSE IF Len(parts) = 1 THEN parts[1]
    ELSE parts[1] \o <<sep>> \o join(Tail(parts), sep)

read_basic_string(s, offset) ==
    IF ~IsNode(offset, "string") THEN Err(read_exact(seek(s), 1))
    ELSE IF ~catalog[offset].utf8 THEN Err(read_exact(seek(s), 2))
    ELSE Ok(read_exact(seek(s), 2), catalog[offset].bytes)

RECURSIVE read_encoded_string_sep(_, _, _)
RECURSIVE segmented_parts(_, _, _)
\* the loop of read_segmented_string, with the reader at node: the parts in
\* the order the nodes are visited
segmented_parts(s, node, parts) ==
    IF ~IsNode(node, "segment") THEN Err(read_exact(s, 1))
    ELSE Try(read_encoded_string_sep(read_exact(s, 2), catalog[node].part_offset, NUL),
             LAMBDA part :
                 IF catalog[node].next_part_offset = U32_MAX
                 THEN Ok(part.s, Append(parts, part.val))
                 ELSE segmented_parts(seek(part.s), catalog[node].next_part_offset,
                                      Append(parts, part.val)))

\* read_segmented_string without parts.reverse()
read_segmented_string_unreversed(s, offset, separator) ==
    Try(segmented_parts(seek(s), offset, <<>>),
        LAMBDA parts : Ok(parts.s, join(parts.val, separator)))

read_segmented_string(s, offset, separator) ==
    Try(segmented_parts(seek(s), offset, <<>>),
        LAMBDA parts : Ok(parts.s, join(reverse(parts.val), separator)))

\* read_encoded_string_sep without the test for u32::MAX
read_encoded_string_sep_no_sentinel(s, encoded_offset, dynamic_string_separator) ==
    IF encoded_offset \in DOMAIN s.strings THEN Ok(s, s.strings[encoded_offset])
    ELSE LET dynamic_string == dynamic_bit(encoded_offset) /\ dynamic_string_separator # NUL
             offset == offset_bits(encoded_offset)
         IN Try(IF dynamic_string
                THEN read_segmented_string(s, offset, dynamic_string_separator)
                ELSE read_basic_string(s, offset),
                LAMBDA result :
                    Ok([result.s EXCEPT !.strings = (encoded_offset :> result.val) @@ @],
                       result.val))

read_encoded_string_sep(s, encoded_offset, dynamic_string_separator) ==
    IF encoded_offset \in DOMAIN s.strings THEN Ok(s, s.strings[encoded_offset])
    ELSE IF encoded_offset = U32_MAX THEN Ok(s, <<>>)
    ELSE LET dynamic_string == dynamic_bit(encoded_offset) /\ dynamic_string_separator # NUL
             offset == offset_bits(encoded_offset)
         IN Try(IF dynamic_string
                THEN read_segmented_string(s, offset, dynamic_string_separator)
                ELSE read_basic_string(s, offset),
                LAMBDA result :
                    Ok([result.s EXCEPT !.strings = (encoded_offset :> result.val) @@ @],
                       result.val))

read_encoded_string(s, encoded_offset) == read_encoded_string_sep(s, encoded_offset, NUL)

read_offset_array(s, encoded_offset) ==
    IF encoded_offset = U32_MAX THEN Ok(s, <<>>)
    ELSE IF ~IsNode(encoded_offset, "array") THEN Err(read_exact(seek(s), 1))
    ELSE LET a == catalog[encoded_offset]
             elem_count == a.byte_size \div 4
         IN IF a.byte_size % 4 # 0 THEN Panic(read_exact(seek(s), 1))
            ELSE IF elem_count > Len(a.elems)
                 THEN Err(read_exact(seek(s), Len(a.elems) + 2))
            ELSE Ok(read_exact(seek(s), elem_count + 1), SubSeq(a.elems, 1, elem_count))

\* AssemblyClass::from_reader, with the reader at the offset at
AssemblyClass_from_reader(s, at) ==
    IF ~IsNode(at, "class") THEN Err(read_exact(s, 1))
    ELSE Try(read_encoded_string_sep(read_exact(s, 2), catalog[at].assembly_name, "."),
             LAMBDA assembly_name :
         Try(read_encoded_string_sep(assembly_name.s, catalog[at].class_name, "."),
             LAMBDA class_name :
         Ok(class_name.s, [m_AssemblyName |-> assembly_name.val,
                           m_ClassName |-> class_name.val])))

\* str::split(',').next(): the tokens before the first ','
RECURSIVE before_comma(_)
before_comma(q) ==
    IF q = <<>> \/ Head(q) = "," THEN <<>> ELSE <<Head(q)>> \o before_comma(Tail(q))

\* AssemblyClass::get_match_name once the assert of get_assembly_short_name
\* has passed
get_match_name(c) == before_comma(c.m_AssemblyName) \o <<"; ">> \o c.m_ClassName

INT_MATCHNAME == <<"mscorlib", "; ", "System.Int32">>

LONG_MATCHNAME == <<"mscorlib", "; ", "System.Int64">>

BOOL_MATCHNAME == <<"mscorlib", "; ", "System.Boolean">>

STRING_MATCHNAME == <<"mscorlib", "; ", "System.String">>

HASH128_MATCHNAME == <<"UnityEngine.CoreModule", "; ", "UnityEngine.Hash128">>

ABRO_MATCHNAME ==
    <<"Unity.ResourceManager", "; ",
      "UnityEngine.ResourceManagement.ResourceProviders.AssetBundleRequestOptions">>

None == [some |-> FALSE]

Some(ty, v) == [some |-> TRUE, ty |-> ty, v |-> v]

\* AssetBundleRequestOptions::from_reader, with the reader at the offset at
AssetBundleRequestOptions_from_reader(s, at) ==
    IF ~IsNode(at, "abro") THEN Err(read_exact(s, 1))
    ELSE LET o == catalog[at] IN
         IF ~IsNode(o.hash_offset, "hash128") THEN Err(read_exact(seek(read_exact(s, 5)), 1))
         ELSE Try(read_encoded_string_sep(read_exact(seek(read_exact(s, 5)), 4),
                                          o.bundle_name_offset, "_"),
                  LAMBDA bundle_name :
                      IF ~IsNode(o.common_info_offset, "common_info")
                      THEN Err(read_exact(seek(bundle_name.s), 1))
                      ELSE Ok(read_exact(seek(bundle_name.s), 4),
                              [hash |-> catalog[o.hash_offset].v, crc |-> o.crc,
                               common_info |-> catalog[o.common_info_offset],
                               bundle_name |-> bundle_name.val,
                               bundle_size |-> o.bundle_size]))

\* the match arm of decode_v2 for the type c: the value at object_offset, or
\* the default of the type when object_offset is u32::MAX
decode_v2_value(s, c, object_offset) ==
    LET is_default_object == object_offset = U32_MAX
        match_name == get_match_name(c)
        at(t) == IsNode(object_offset, t)
    IN CASE match_name = INT_MATCHNAME ->
              IF is_default_object THEN Ok(s, Some("Int", 0))
              ELSE IF ~at("i32") THEN Err(read_exact(seek(s), 1))
              ELSE Ok(read_exact(seek(s), 1), Some("Int", catalog[object_offset].value))
         [] match_name = LONG_MATCHNAME ->
              IF is_default_object THEN Ok(s, Some("Long", 0))
              ELSE IF ~at("i64") THEN Err(read_exact(seek(s), 1))
              ELSE Ok(read_exact(seek(s), 1), Some("Long", catalog[object_offset].value))
         [] match_name = BOOL_MATCHNAME ->
              IF is_default_object THEN Ok(s, Some("Bool", FALSE))
              ELSE IF ~at("bool") THEN Err(read_exact(seek(s), 1))
              ELSE Ok(read_exact(seek(s), 1), Some("Bool", catalog[object_offset].value))
         [] match_name = STRING_MATCHNAME ->
              IF is_default_object THEN Ok(s, Some("String", <<>>))
              ELSE IF ~at("string_object") THEN Err(read_exact(seek(s), 1))
              ELSE Try(read_encoded_string_sep(read_exact(seek(s), 2),
                                               catalog[object_offset].string_offset,
                                               catalog[object_offset].separator),
                       LAMBDA value : Ok(value.s, Some("String", value.val)))
         [] match_name = HASH128_MATCHNAME ->
              IF is_default_object THEN Ok(s, Some("Hash128", <<0, 0, 0, 0>>))
              ELSE IF ~at("hash128") THEN Err(read_exact(seek(s), 1))
              ELSE Ok(read_exact(seek(s), 4), Some("Hash128", catalog[object_offset].v))
         [] match_name = ABRO_MATCHNAME ->
              IF is_default_object THEN Ok(s, None)
              ELSE Try(AssetBundleRequestOptions_from_reader(seek(s), object_offset),
                       LAMBDA obj : Ok(obj.s, Some("Abro", obj.val)))
         [] OTHER -> Err(s)

decode_v2(s, offset) ==
    IF offset = U32_MAX THEN Ok(s, None)
    ELSE IF ~IsNode(offset, "v2") THEN Err(read_exact(seek(s), 1))
    ELSE Try(AssemblyClass_from_reader(seek(read_exact(seek(s), 2)),
                                       catalog[offset].type_name_offset),
             LAMBDA serialized_type :
                 IF "," \notin Range(serialized_type.val.m_AssemblyName)
                 THEN Panic(serialized_type.s)
                 ELSE decode_v2_value(serialized_type.s, serialized_type.val,
                                      catalog[offset].object_offset))

RECURSIVE get_ot_read_resource(_, _)
RECURSIVE read_resources(_, _, _)
\* offsets.iter().map(|&offset| get_ot_read_resource(offset)).collect::<Result<Vec<_>, _>>()
read_resources(s, offsets, acc) ==
    IF offsets = <<>> THEN Ok(s, acc)
    ELSE Try(get_ot_read_resource(s, Head(offsets)),
             LAMBDA location : read_resources(location.s, Tail(offsets),
                                              Append(acc, location.val)))

\* ResourceLocation::from_catalog_here, with the reader at the offset at
from_catalog_here(s, at) ==
    IF ~IsNode(at, "location") THEN Err(read_exact(s, 1))
    ELSE LET header == catalog[at] IN
         Try(read_encoded_string_sep(read_exact(s, 7), header.primary_key_offset, "/"),
             LAMBDA primary_key :
         Try(read_encoded_string_sep(primary_key.s, header.internal_id_offset, "/"),
             LAMBDA internal_id :
         Try(read_encoded_string_sep(internal_id.s, header.provider_id_offset, "."),
             LAMBDA provider_id :
         Try(read_offset_array(provider_id.s, header.dependencies_offset),
             LAMBDA dependency_offsets :
         Try(read_resources(dependency_offsets.s, dependency_offsets.val, <<>>),
             LAMBDA dependencies :
         Try(decode_v2(dependencies.s, header.data_offset),
             LAMBDA data :
                 IF data.val.some /\ data.val.ty # "Abro" THEN Panic(data.s) ELSE
         Try(AssemblyClass_from_reader(seek(data.s), header.type_offset),
             LAMBDA type :
         Ok(type.s,
            [offset |-> at, arc |-> 0,
             internal_id |-> internal_id.val,
             provider_id |-> provider_id.val,
             dependencies |-> dependencies.val,
             data |-> data.val,
             dependency_hash_code |-> header.dependency_hash_code,
             primary_key |-> primary_key.val,
             type_ |-> type.val]))))))))

\* Arc::new of a decoded location, and its insertion into cache.locations
insert_location(s, offset, location) ==
    LET arc == [location EXCEPT !.arc = Len(s.made) + 1]
    IN Ok([s EXCEPT !.made = Append(@, offset),
                    !.locations = (offset :> arc) @@ @], arc)

\* get_ot_read_resource that does not look into cache.locations
get_ot_read_resource_uncached(s, offset) ==
    Try(from_catalog_here(seek(s), offset),
        LAMBDA location : insert_location(location.s, offset, location.val))

get_ot_read_resource(s, offset) ==
    IF offset \in DOMAIN s.locations THEN Ok(s, s.locations[offset])
    ELSE Try(from_catalog_here(seek(s), offset),
             LAMBDA location : insert_location(location.s, offset, location.val))

BinaryCatalogHeader_from_reader(s) ==
    IF ~IsNode(0, "header") THEN Err(read_exact(s, 1))
    ELSE IF catalog[0].magic # MAGIC THEN Err(read_exact(s, 1))
    ELSE IF catalog[0].version # 2 THEN Err(read_exact(s, 2))
    ELSE Ok(read_exact(s, 8), catalog[0])

\* ObjectInitializationData::from_reader, with the reader at the offset at
ObjectInitializationData_from_reader(s, at) ==
    IF ~IsNode(at, "object_initialization_data") THEN Err(read_exact(s, 1))
    ELSE Try(read_encoded_string(read_exact(s, 3), catalog[at].id_offset),
             LAMBDA id :
         Try(AssemblyClass_from_reader(seek(id.s), catalog[at].object_type_offset),
             LAMBDA object_type :
         Try(read_encoded_string(object_type.s, catalog[at].data_offset),
             LAMBDA data :
         Ok(data.s, [id |-> id.val, object_type |-> object_type.val, data |-> data.val]))))

RECURSIVE read_provider_data(_, _, _)
\* the map over resource_provider_data_offsets in read()
read_provider_data(s, offsets, acc) ==
    IF offsets = <<>> THEN Ok(s, acc)
    ELSE Try(ObjectInitializationData_from_reader(seek(s), Head(offsets)),
             LAMBDA o : read_provider_data(o.s, Tail(offsets), Append(acc, o.val)))

RECURSIVE read_keys(_, _, _, _)
\* the loop over key_location_offsets in read(), at index i
read_keys(s, key_location_offsets, i, resources) ==
    IF i > Len(key_location_offsets) THEN Ok(s, resources)
    ELSE IF i + 1 > Len(key_location_offsets) THEN Panic(s)
    ELSE Try(decode_v2(s, key_location_offsets[i]),
             LAMBDA key :
                 IF ~key.val.some THEN Panic(key.s)
                 ELSE IF key.val.ty # "String" THEN Panic(key.s) ELSE
         Try(read_offset_array(key.s, key_location_offsets[i + 1]),
             LAMBDA location_offsets :
         Try(read_resources(location_offsets.s, location_offsets.val, <<>>),
             LAMBDA locations :
         read_keys(locations.s, key_location_offsets, i + 2,
                   (key.val.v :> locations.val) @@ resources))))

\* BinaryCatalogReader::read
read(s) ==
    LET header == catalog[0] IN
    Try(read_encoded_string(s, header.id_offset),
        LAMBDA locator_id :
    Try(read_encoded_string(locator_id.s, header.build_result_hash_offset),
        LAMBDA build_result_hash :
    Try(ObjectInitializationData_from_reader(seek(build_result_hash.s),
                                             header.instance_provider_offset),
        LAMBDA instance_provider_data :
    Try(ObjectInitializationData_from_reader(seek(instance_provider_data.s),
                                             header.scene_provider_offset),
        LAMBDA scene_provider_data :
    Try(read_offset_array(scene_provider_data.s, header.init_objects_array_offset),
        LAMBDA resource_provider_data_offsets :
    Try(read_provider_data(resource_provider_data_offsets.s,
                           resource_provider_data_offsets.val, <<>>),
        LAMBDA resource_provider_data :
    Try(read_offset_array(resource_provider_data.s, header.keys_offset),
        LAMBDA key_location_offsets :
    Try(read_keys(key_location_offsets.s, key_location_offsets.val, 1, <<>>),
        LAMBDA resources :
    Ok(resources.s,
       [locator_id |-> locator_id.val,
        build_result_hash |-> build_result_hash.val,
        instance_provider_data |-> instance_provider_data.val,
        scene_provider_data |-> scene_provider_data.val,
        resource_provider_data |-> resource_provider_data.val,
        resources |-> resources.val])))))))))

(***************************************************************************)
(* The calls on one BinaryCatalogReader.  Each is one action, since the    *)
(* reader is borrowed mutably for the whole call.                          *)
(***************************************************************************)
\* the reader and its cache as the record the decoding functions pass on
ReaderState ==
    [seeks |-> cat_reader.seeks, reads |-> cat_reader.reads,
     strings |-> cat_cache.strings, locations |-> cat_cache.locations,
     made |-> cat_made]

\* the call op(arg, sep), the n-th on the reader, has returned r
Returns(op, arg, sep, r, n) ==
    /\ cat_reader' = [seeks |-> r.s.seeks, reads |-> r.s.reads]
    /\ cat_cache' = [strings |-> r.s.strings, locations |-> r.s.locations]
    /\ cat_made' = r.s.made
    /\ cat_call' = [op |-> op, arg |-> arg, sep |-> sep, kind |-> r.kind, val |-> r.val,
                    before |-> ReaderState]
    /\ cat_n' = n
    /\ UNCHANGED catalog
    /\ UNCHANGED <<reachVars, parseVars, cacheVars, pruneVars, lookupVars, indexVars, derefVars, foldVars>>

CanCall == cat_pc = "ready" /\ cat_n < MaxDecodes

\* a panic ends the use of the reader; after an Err it can be used again
Called(op, arg, sep, r) ==
    /\ Returns(op, arg, sep, r, cat_n + 1)
    /\ cat_pc' = IF r.kind = "panic" THEN "panic" ELSE "ready"

BinaryCatalogReader_new ==
    /\ cat_pc = "new"
    /\ \E r \in {BinaryCatalogHeader_from_reader(ReaderState)} :
          /\ Returns("new", 0, NUL, r, 0)
          /\ cat_pc' = IF r.kind = "Ok" THEN "ready" ELSE "failed"

StringRequests == ({U32_MAX, DYNAMIC_BIT + 101} \X Separators) \cup {<<40, ".">>}

call_read_encoded_string_sep ==
    /\ CanCall
    /\ \E q \in StringRequests :
          \E r \in {read_encoded_string_sep(ReaderState, q[1], q[2])} :
              Called("read_encoded_string_sep", q[1], q[2], r)

ArrayRequests == {U32_MAX, 120, 121}

call_read_offset_array ==
    /\ CanCall
    /\ \E o \in ArrayRequests :
          \E r \in {read_offset_array(ReaderState, o)} :
              Called("read_offset_array", o, NUL, r)

ValueRequests == {U32_MAX} \cup 81..88 \cup {92, 93}

call_decode_v2 ==
    /\ CanCall
    /\ \E o \in ValueRequests :
          \E r \in {decode_v2(ReaderState, o)} :
              Called("decode_v2", o, NUL, r)

call_get_ot_read_resource ==
    /\ CanCall
    /\ \E o \in Range(LocationOffsets) :
          \E r \in {get_ot_read_resource(ReaderState, o)} :
              Called("get_ot_read_resource", o, NUL, r)

call_read ==
    /\ CanCall
    /\ \E r \in {read(ReaderState)} :
          Called("read", 0, NUL, r)

\* sequences over S of at most n elements, none of them twice
DistinctSeqs(S, n) ==
    {q \in SeqsUpTo(S, n) : \A i, j \in 1..Len(q) : q[i] = q[j] => i = j}

DefaultFragments == <<"CoreModule", "Engine", "Unity">>

\* the dependency lists of L(1) and L(2): a location depends on later ones
Dependencies ==
    DistinctSeqs({L(2), L(3)}, MaxDeps) \X DistinctSeqs({L(3)}, MaxDeps)

DefaultDependencies == <<<<L(2), L(3)>>, <<L(3)>>>>

Catalogs ==
       {Catalog(f, DefaultDependencies, "none") :
            f \in DistinctSeqs(Fragments, MaxFragments) \ {<<>>}}
  \cup {Catalog(DefaultFragments, d, "none") : d \in Dependencies}
  \cup {Catalog(DefaultFragments, DefaultDependencies, e) : e \in Faults}

InitCatalog ==
    /\ IdleReach
    /\ IdleParse
    /\ IdleCache
    /\ IdlePrune
    /\ IdleLookup
    /\ IdleIndex
    /\ IdleDeref
    /\ IdleFold
    /\ catalog \in Catalogs
    /\ cat_reader = [seeks |-> 0, reads |-> 0]
    /\ cat_cache = [strings |-> <<>>, locations |-> <<>>]
    /\ cat_made = <<>>
    /\ cat_call = [op |-> "none"]
    /\ cat_n = 0
    /\ cat_pc = "new"

NextCatalog ==
    \/ BinaryCatalogReader_new
    \/ call_read_encoded_string_sep
    \/ call_read_offset_array
    \/ call_decode_v2
    \/ call_get_ot_read_resource
    \/ call_read

SpecCatalog == InitCatalog /\ [][NextCatalog]_vars

\* the last call was op with the sentinel u32::MAX as its offset
SentinelCall(op) == cat_call.op = op /\ cat_call.arg = U32_MAX

\* the last call moved the reader neither by a seek nor by a read
NoSeekNoRead ==
    /\ cat_reader.seeks = cat_call.before.seeks
    /\ cat_reader.reads = cat_call.before.reads

\* C15: decoding the sentinel offset 0xFFFFFFFF yields the absent value (the
\* empty string from read_encoded_string_sep, the empty list from
\* read_offset_array, None from decode_v2) without a seek or a read,
\* whatever the separator and whatever was decoded before.
C15_SentinelIsAbsent ==
    /\ SentinelCall("read_encoded_string_sep") =>
           cat_call.kind = "Ok" /\ cat_call.val = <<>> /\ NoSeekNoRead
    /\ SentinelCall("read_offset_array") =>
           cat_call.kind = "Ok" /\ cat_call.val = <<>> /\ NoSeekNoRead
    /\ SentinelCall("decode_v2") =>
           cat_call.kind = "Ok" /\ cat_call.val = None /\ NoSeekNoRead

\* the sentinel was decoded as a string with a separator, on a reader whose
\* string cache an earlier call had filled
C15_Witness ==
    /\ SentinelCall("read_encoded_string_sep")
    /\ cat_call.sep # NUL
    /\ DOMAIN cat_call.before.strings # {}
    /\ cat_call.val = <<>>

\* the linked nodes of the segmented string of the catalog, in the order
\* read_segmented_string visits them from the first node at offset 101
SegmentNodes == {a \in DOMAIN catalog : catalog[a].t = "segment"}

\* f1..fn: the fragment of each visited node
VisitedFragments ==
    [i \in 1..Cardinality(SegmentNodes) |-> catalog[catalog[100 + i].part_offset].bytes[1]]

\* fn, ..., f1 with the separator between every two of them
ReversedAndJoined(f, sep) ==
    [k \in 1..(2 * Len(f) - 1) |->
        IF k % 2 = 1 THEN f[Len(f) - (k - 1) \div 2] ELSE sep]

\* the last call decoded the segmented string at offset 101 with a separator,
\* and the string was not in the cache, so that its nodes were visited
SegmentedDecode ==
    /\ cat_call.op = "read_encoded_string_sep"
    /\ cat_call.arg = DYNAMIC_BIT + 101
    /\ cat_call.sep # NUL
    /\ cat_call.arg \notin DOMAIN cat_call.before.strings

\* C16: decoding a segmented string whose linked nodes are visited in the
\* order f1..fn yields fn, ..., f1 joined by the separator of the caller.
C16_SegmentedStringIsReversed ==
    SegmentedDecode =>
        /\ cat_call.kind = "Ok"
        /\ cat_call.val = ReversedAndJoined(VisitedFragments, cat_call.sep)

\* the chain CoreModule -> Engine -> Unity decoded with '.' gave
\* Unity.Engine.CoreModule
C16_Witness ==
    /\ SegmentedDecode
    /\ VisitedFragments = <<"CoreModule", "Engine", "Unity">>
    /\ cat_call.sep = "."
    /\ cat_call.val = <<"Unity", ".", "Engine", ".", "CoreModule">>

\* the catalog is the well-formed one but for the fault e
Malformed(e) == catalog = Catalog(DefaultFragments, DefaultDependencies, e)

\* BinaryCatalog::from_reader has run on the catalog: new() failed, or new()
\* succeeded and read() was the first call on the reader
FromReaderReturned ==
    \/ cat_call.op = "new" /\ cat_call.kind # "Ok"
    \/ cat_call.op = "read" /\ cat_n = 1

\* C17: every format error of a catalog (bad magic, unsupported version, an
\* offset array whose byte size is no multiple of 4, an unknown v2 type tag,
\* a string that is not UTF-8, a catalog key that is absent or not a
\* string) makes BinaryCatalog::from_reader return an error: no catalog is
\* produced and the decoder does not panic.
C17_FormatErrorsReturnErr ==
    \A e \in Faults \ {"none"} :
        Malformed(e) /\ FromReaderReturned => cat_call.kind = "Err"

\* the four format errors that do return an error
ReportedFaultsReturnErr ==
    \A e \in {"magic", "version", "unknown_type", "utf8"} :
        Malformed(e) /\ FromReaderReturned => cat_call.kind = "Err"

\* a well-formed catalog decodes
WellFormedCatalogDecodes ==
    Malformed("none") /\ FromReaderReturned => cat_call.kind = "Ok"

\* the v2 values of the catalog whose object_offset is the sentinel: at
\* offset 80 + k the one of the k-th known type, at 87 one of System.Single
DefaultOf(offset) ==
    CASE offset = 81 -> Some("Int", 0)
      [] offset = 82 -> Some("Long", 0)
      [] offset = 83 -> Some("Bool", FALSE)
      [] offset = 84 -> Some("String", <<>>)
      [] offset = 85 -> Some("Hash128", <<0, 0, 0, 0>>)

\* the five types whose default decode_v2 does return
FiveDefaultsArePresent ==
    cat_call.op = "decode_v2" /\ cat_call.arg \in 81..85 =>
        cat_call.kind = "Ok" /\ cat_call.val = DefaultOf(cat_call.arg)

\* C18: for a v2 value of one of the six known types whose object_offset is
\* the sentinel, decode_v2 returns a present value (0 for Int32 and Int64,
\* false for Boolean, the empty string for String, the zeroed Hash128, and a
\* present value for AssetBundleRequestOptions too); for a type name outside
\* the six it returns an error.
C18_DefaultObjectIsPresent ==
    cat_call.op = "decode_v2" =>
        /\ cat_call.arg \in 81..85 =>
               cat_call.kind = "Ok" /\ cat_call.val = DefaultOf(cat_call.arg)
        /\ cat_call.arg = 86 => cat_call.kind = "Ok" /\ cat_call.val.some
        /\ cat_call.arg = 87 => cat_call.kind = "Err"

RECURSIVE References(_)
\* a decoded location and the locations its dependency lists refer to
References(location) ==
    {location} \cup UNION {References(location.dependencies[i]) :
                               i \in 1..Len(location.dependencies)}

\* the locations the last call handed out: the result of
\* get_ot_read_resource, or the location lists of the keys of read()
HandedOut ==
    IF cat_call.op = "get_ot_read_resource" /\ cat_call.kind = "Ok" THEN {cat_call.val}
    ELSE IF cat_call.op = "read" /\ cat_call.kind = "Ok"
    THEN UNION {Range(cat_call.val.resources[k]) : k \in DOMAIN cat_call.val.resources}
    ELSE {}

\* every reference to a location the decoder holds or has handed out
AllReferences ==
    UNION {References(l) :
               l \in HandedOut \cup {cat_cache.locations[o] : o \in DOMAIN cat_cache.locations}}

\* C19: within one decoder and an acyclic dependency graph, the location at
\* an offset is decoded at most once, and every reference to the offset,
\* from a location list or from a dependency list, is the same object.
C19_DecodedOnceAndShared ==
    /\ \A i, j \in 1..Len(cat_made) : cat_made[i] = cat_made[j] => i = j
    /\ \A x, y \in AllReferences : x.offset = y.offset => x.arc = y.arc

\* L(1) was decoded in a catalog where L(3) is a dependency both of L(1) and
\* of its dependency L(2), and the two references are one object; then L(3)
\* was asked for again
C19_Witness ==
    /\ cat_call.op = "get_ot_read_resource"
    /\ cat_call.arg = L(3)
    /\ cat_call.kind = "Ok"
    /\ L(1) \in DOMAIN cat_call.before.locations
    /\ LET l1 == cat_cache.locations[L(1)]
       IN /\ Len(l1.dependencies) = 2
          /\ l1.dependencies[1].offset = L(2)
          /\ l1.dependencies[1].dependencies[1].offset = L(3)
          /\ l1.dependencies[2] = cat_call.val
          /\ l1.dependencies[1].dependencies[1] = cat_call.val
    /\ Len(cat_made) = 3

(***************************************************************************)
(* addressables/mod.rs: addressables_bundle_lookup.  The entries of the    *)
(* build directory are folded in parallel: rayon hands each entry to some  *)
(* accumulator, a new one or one that has folded entries before, and then  *)
(* reduces the accumulators two by two, in an order it chooses.            *)
(***************************************************************************)
Members == {"CAB-1", "CAB-2"}

\* what a directory entry is: a directory, a file that is no bundle, or a
\* bundle with its member files
EntryKinds ==
    {[kind |-> "dir"], [kind |-> "bad"]}
        \cup {[kind |-> "bundle", files |-> f] : f \in SeqsUpTo(Members, MaxMembers)}

\* (FxHashMap<String, PathBuf>, FxHashMap<PathBuf, Vec<String>>)::default()
DefaultAcc == [cab_to_bundle |-> <<>>, bundle_to_cab |-> <<>>]

RECURSIVE insert_files(_, _, _)
\* for file in bundle.files() { acc.0.insert(file.path.clone(), relative) }
insert_files(map, files, relative) ==
    IF files = <<>> THEN map
    ELSE insert_files((Head(files) :> relative) @@ map, Tail(files), relative)

\* the closure of try_fold on the entry relative, which is a bundle
fold_entry(acc, relative) ==
    LET bundle_to_cab_files ==
            IF relative \in DOMAIN acc.bundle_to_cab THEN acc.bundle_to_cab[relative]
            ELSE <<>>
    IN [cab_to_bundle |-> insert_files(acc.cab_to_bundle, ix_dir[relative].files, relative),
        bundle_to_cab |-> (relative :> (bundle_to_cab_files \o ix_dir[relative].files))
                              @@ acc.bundle_to_cab]

\* the closure of try_reduce: HashMap::extend, where the entries of item
\* replace those of acc
reduce(acc, item) ==
    [cab_to_bundle |-> item.cab_to_bundle @@ acc.cab_to_bundle,
     bundle_to_cab |-> item.bundle_to_cab @@ acc.bundle_to_cab]

IndexUnchanged ==
    UNCHANGED <<reachVars, parseVars, cacheVars, pruneVars, lookupVars, catalogVars, derefVars, foldVars>>

\* one entry is folded into an accumulator; an entry that is no bundle ends
\* the whole lookup with its error
try_fold ==
    /\ ix_result.kind = "pending"
    /\ \E relative \in ix_pending, acc \in ix_accs \cup {DefaultAcc} :
          /\ ix_pending' = ix_pending \ {relative}
          /\ CASE ix_dir[relative].kind = "dir" ->
                    /\ ix_accs' = ix_accs \cup {acc}
                    /\ UNCHANGED ix_result
               [] ix_dir[relative].kind = "bad" ->
                    /\ ix_result' = [kind |-> "Err"]
                    /\ UNCHANGED ix_accs
               [] OTHER ->
                    /\ ix_accs' = (ix_accs \ {acc}) \cup {fold_entry(acc, relative)}
                    /\ UNCHANGED ix_result
    /\ UNCHANGED ix_dir
    /\ IndexUnchanged

\* two accumulators are reduced to one
try_reduce ==
    /\ ix_result.kind = "pending"
    /\ ix_pending = {}
    /\ \E acc \in ix_accs : \E item \in ix_accs \ {acc} :
          ix_accs' = (ix_accs \ {acc, item}) \cup {reduce(acc, item)}
    /\ UNCHANGED <<ix_dir, ix_pending, ix_result>>
    /\ IndexUnchanged

addressables_bundle_lookup_return ==
    /\ ix_result.kind = "pending"
    /\ ix_pending = {}
    /\ Cardinality(ix_accs) <= 1
    /\ \E acc \in (IF ix_accs = {} THEN {DefaultAcc} ELSE ix_accs) :
          ix_result' = [kind |-> "Ok", val |-> acc]
    /\ UNCHANGED <<ix_dir, ix_pending, ix_accs>>
    /\ IndexUnchanged

InitIndex ==
    /\ IdleReach
    /\ IdleParse
    /\ IdleCache
    /\ IdlePrune
    /\ IdleLookup
    /\ IdleCatalog
    /\ IdleDeref
    /\ IdleFold
    /\ ix_dir \in UNION {[1..n -> EntryKinds] : n \in 0..MaxBundles}
    /\ ix_pending = DOMAIN ix_dir
    /\ ix_accs = {}
    /\ ix_result = [kind |-> "pending"]

NextIndex ==
    \/ try_fold
    \/ try_reduce
    \/ addressables_bundle_lookup_return

SpecIndex == InitIndex /\ [][NextIndex]_vars

\* the bundles of the directory that hold the member m
Owners(m) ==
    {b \in DOMAIN ix_dir : ix_dir[b].kind = "bundle" /\ m \in Range(ix_dir[b].files)}

\* some member name occurs in two different bundles
ConflictingOwners == \E m \in Members : Cardinality(Owners(m)) > 1

\* C20: when the same member name occurs in two different bundles, the
\* index build returns an error instead of keeping one of the owners in the
\* member-to-bundle map.
C20_ConflictIsSurfaced ==
    ix_result.kind # "pending" /\ ConflictingOwners => ix_result.kind = "Err"

\* without a conflict the member-to-bundle map holds the one owner of every
\* member, also of a member that its bundle lists twice
SingleOwnerIsKept ==
    ix_result.kind = "Ok" /\ ~ConflictingOwners =>
        /\ DOMAIN ix_result.val.cab_to_bundle = {m \in Members : Owners(m) # {}}
        /\ \A m \in DOMAIN ix_result.val.cab_to_bundle :
               Owners(m) = {ix_result.val.cab_to_bundle[m]}

RECURSIVE sequential_fold(_, _)
\* the lookup with one worker: every entry of the directory is folded, in
\* the order of the walk, into one accumulator
sequential_fold(acc, i) ==
    IF i > Len(ix_dir) THEN acc
    ELSE IF ix_dir[i].kind = "bundle" THEN sequential_fold(fold_entry(acc, i), i + 1)
    ELSE sequential_fold(acc, i + 1)

\* C21: for a fixed build directory the lookup returns the same
\* member-to-bundle and bundle-to-members maps for every partition of the
\* entries across workers and every order of the merges: every result is
\* the result of the partition that gives all entries to one worker.
C21_SameMapsForEveryOrder ==
    ix_result.kind = "Ok" => ix_result.val = sequential_fold(DefaultAcc, 1)

\* the bundle-to-members map never depends on the partition or the order:
\* every bundle is folded once, into one accumulator, and the keys of two
\* accumulators are disjoint
BundleToMembersIsDetermined ==
    ix_result.kind = "Ok" =>
        ix_result.val.bundle_to_cab = sequential_fold(DefaultAcc, 1).bundle_to_cab

\* and when no member has two owners, both maps are determined
SameMapsWithoutConflict ==
    ix_result.kind = "Ok" /\ ~ConflictingOwners =>
        ix_result.val = sequential_fold(DefaultAcc, 1)

(***************************************************************************)
(* handle.rs, env.rs: dereferencing pointers.  One caller opens a file of  *)
(* the game, takes an object of it and follows pointers from handle to     *)
(* handle.  The files level0 and cabA each have an externals table and an  *)
(* object table; the path nofile of a table names no file.  A single       *)
(* caller runs load_external_file from entry to return.                    *)
(***************************************************************************)
DerefPaths == {LEVEL0, A_MAIN, NOFILE}

\* the files a handle can be on
DerefFiles == {LEVEL0, A_MAIN}

\* the path_ids of the object table of a file
ObjectTable(p) == IF p = LEVEL0 THEN {1, 2} ELSE IF p = A_MAIN THEN {1} ELSE {}

\* the pointers a caller reads out of an object
DerefPPtrs == [m_FileID : 0..MaxExternals, m_PathID : {1, 2}]

\* the Environment as load_external_file sees and changes it
EnvNow ==
    [serialized_files |-> serialized_files, unity_version |-> unity_version,
     addressables |-> addressables, reads |-> reads]

EnvOk(env, e) == [kind |-> "Ok", env |-> env, e |-> e]
EnvErr(env) == [kind |-> "Err", env |-> env, e |-> NoEntry]
EnvPanic(env) == [kind |-> "panic", env |-> env, e |-> NoEntry]

\* read_path, SerializedFile::from_reader and serialized_files.insert of
\* the loose file branch of load_external_file
read_path_insert(env, path_name) ==
    IF path_name \notin LooseFiles THEN EnvErr(env)
    ELSE LET serialized == [id |-> env.reads[path_name] + 1,
                            ver |-> HeaderVersion(path_name), by |-> "load_external_file"]
             inserted == insert(env.serialized_files, path_name, serialized)
         IN EnvOk([env EXCEPT !.serialized_files = inserted, !.reads[path_name] = @ + 1],
                  inserted[path_name])

\* Environment::unity_version: the OnceLock, filled from the version tag of
\* globalgamemanagers
Environment_unity_version(env) ==
    IF env.unity_version = "set" THEN EnvOk(env, NoEntry)
    ELSE LET g == get(env.serialized_files, GGM)
             ggm == IF g.some THEN EnvOk(env, g.e) ELSE read_path_insert(env, GGM)
         IN IF ggm.kind # "Ok" THEN ggm
            ELSE IF ~ggm.e.ver THEN EnvErr(ggm.env)
            ELSE EnvOk([ggm.env EXCEPT !.unity_version = "set"], NoEntry)

\* Environment::addressables: the OnceLock, filled by AddressablesData::read
Environment_addressables(env) ==
    IF env.addressables # "unset" THEN EnvOk(env, NoEntry)
    ELSE IF ~disk.has_aa THEN EnvOk([env EXCEPT !.addressables = "none"], NoEntry)
    ELSE LET v == Environment_unity_version(env)
         IN IF v.kind # "Ok" THEN v
            ELSE EnvOk([v.env EXCEPT !.addressables = "some"], NoEntry)

\* Environment::load_external_file, from entry to return
Environment_load_external_file(env, path_name) ==
    LET g == get(env.serialized_files, path_name)
        cab == try_parse(path_name)
    IN IF g.some THEN EnvOk(env, g.e)
       ELSE IF cab.kind = "Err" THEN EnvErr(env)
       ELSE IF cab.kind = "Some"
       THEN LET aa == Environment_addressables(env)
                cab_bundle == cab_to_bundle(cab.bundle)
            IN IF aa.kind # "Ok" THEN aa
               ELSE IF aa.env.addressables = "none" \/ cab_bundle = "none" THEN EnvErr(aa.env)
               ELSE IF ~read_at(cab_bundle, cab.file) THEN EnvPanic(aa.env)
               ELSE LET serialized ==
                            get_or_insert([id |-> aa.env.reads[path_name] + 1,
                                           ver |-> HeaderVersion(path_name),
                                           by |-> "load_external_file"])
                        inserted == insert(aa.env.serialized_files, path_name, serialized)
                    IN EnvOk([aa.env EXCEPT !.serialized_files = inserted,
                                            !.reads[path_name] = @ + 1],
                             inserted[path_name])
       ELSE read_path_insert(env, path_name)

\* SerializedFileHandle { file, data, env }: the cache entry and its path
SerializedFileHandle(path_name, e) == [path |-> path_name, e |-> e]

\* ObjectRefHandle::new(object, file): object is an ObjectRef, which holds
\* the SerializedFile it was looked up in
ObjectRefHandle_new(object_file, path_id, handle_file) ==
    [kind |-> "some", object |-> [file |-> object_file, path_id |-> path_id],
     file |-> handle_file]

\* PPtr::deref_local(file): the object table of file has the path_id
deref_local(pptr, f) == pptr.m_PathID \in ObjectTable(f.path)

\* FileId::get_externals_index: None for the local file id 0
get_externals_index(m_FileID) == IF m_FileID = 0 THEN None ELSE Some("index", m_FileID)

\* the result of an operation: the environment, the kind and the value
DerefResult(env, kind, val) == [env |-> env, kind |-> kind, val |-> val]

\* SerializedFileHandle::deref with the handle of the result bound to self
deref_bound_to_self(self, pptr) ==
    LET external_index == get_externals_index(pptr.m_FileID) IN
    IF external_index = None
    THEN IF deref_local(pptr, self)
         THEN DerefResult(EnvNow, "Ok", ObjectRefHandle_new(self, pptr.m_PathID, self))
         ELSE DerefResult(EnvNow, "Err", None)
    ELSE LET external_path == m_Externals[self.path][external_index.v]
             loaded == Environment_load_external_file(EnvNow, external_path)
             external == SerializedFileHandle(external_path, loaded.e)
         IN IF loaded.kind # "Ok" THEN DerefResult(loaded.env, loaded.kind, None)
            ELSE IF deref_local(pptr, external)
            THEN DerefResult(loaded.env, "Ok",
                             ObjectRefHandle_new(external, pptr.m_PathID, self))
            ELSE DerefResult(loaded.env, "Err", None)

\* SerializedFileHandle::deref
deref(self, pptr) ==
    LET external_index == get_externals_index(pptr.m_FileID) IN
    IF external_index = None
    THEN IF deref_local(pptr, self)
         THEN DerefResult(EnvNow, "Ok", ObjectRefHandle_new(self, pptr.m_PathID, self))
         ELSE DerefResult(EnvNow, "Err", None)
    ELSE LET external_path == m_Externals[self.path][external_index.v]
             loaded == Environment_load_external_file(EnvNow, external_path)
             external == SerializedFileHandle(external_path, loaded.e)
         IN IF loaded.kind # "Ok" THEN DerefResult(loaded.env, loaded.kind, None)
            ELSE IF deref_local(pptr, external)
            THEN DerefResult(loaded.env, "Ok",
                             ObjectRefHandle_new(external, pptr.m_PathID, external))
            ELSE DerefResult(loaded.env, "Err", None)

\* Environment::deref_read_untyped(pptr, file, reader): the value read is
\* the object, named by its file and path_id; an index past the end of
\* file.m_Externals panics
deref_read_untyped(f, pptr) ==
    LET external_index == get_externals_index(pptr.m_FileID) IN
    IF external_index = None
    THEN IF deref_local(pptr, f)
         THEN DerefResult(EnvNow, "Ok", [path |-> f.path, path_id |-> pptr.m_PathID])
         ELSE DerefResult(EnvNow, "Err", None)
    ELSE IF external_index.v > Len(m_Externals[f.path])
    THEN DerefResult(EnvNow, "panic", None)
    ELSE LET external_info == m_Externals[f.path][external_index.v]
             loaded == Environment_load_external_file(EnvNow, external_info)
             external == SerializedFileHandle(external_info, loaded.e)
         IN IF loaded.kind # "Ok" THEN DerefResult(loaded.env, loaded.kind, None)
            ELSE IF deref_local(pptr, external)
            THEN DerefResult(loaded.env, "Ok",
                             [path |-> external_info, path_id |-> pptr.m_PathID])
            ELSE DerefResult(loaded.env, "Err", None)

\* the handle the caller holds was returned by a dereference of a pointer
\* with a non-local file id
HandleIsExternal ==
    /\ dr_last.op # "none"
    /\ IF dr_last.kind = "Ok" /\ dr_last.op \in {"object_at", "deref"}
       THEN dr_last.op = "deref" /\ dr_last.pptr.m_FileID # 0
       ELSE dr_last.chained

\* the environment after an operation, and the record of the operation: the
\* handle and the pointer it was made with, and what it returned
Dereferenced(op, holder, pptr, r) ==
    /\ serialized_files' = r.env.serialized_files
    /\ unity_version' = r.env.unity_version
    /\ addressables' = r.env.addressables
    /\ reads' = r.env.reads
    /\ dr_last' = [op |-> op, from |-> holder, pptr |-> pptr, kind |-> r.kind, val |-> r.val,
                    chained |-> HandleIsExternal]
    /\ dr_n' = dr_n + 1
    /\ UNCHANGED <<disk, thr, calls, m_Externals>>
    /\ UNCHANGED <<reachVars, parseVars, pruneVars, lookupVars, catalogVars, indexVars, foldVars>>

\* the caller may go on: it has operations left and has not panicked
CanDeref == dr_n < MaxDerefs /\ (dr_last.op # "none" => dr_last.kind # "panic")

\* env.load_cached(path)?.object_at(path_id)?
call_object_at ==
    /\ CanDeref
    /\ \E path_name \in DerefFiles, path_id \in {1, 2} :
          \E loaded \in {Environment_load_external_file(EnvNow, path_name)} :
             LET self == SerializedFileHandle(path_name, loaded.e)
                 pptr == [m_FileID |-> 0, m_PathID |-> path_id]
                 r == IF loaded.kind # "Ok" THEN DerefResult(loaded.env, loaded.kind, None)
                      ELSE IF deref_local(pptr, self)
                      THEN DerefResult(loaded.env, "Ok",
                                       ObjectRefHandle_new(self, path_id, self))
                      ELSE DerefResult(loaded.env, "Err", None)
             IN /\ Dereferenced("object_at", [kind |-> "none"], pptr, r)
                /\ dr_handle' = IF r.kind = "Ok" THEN r.val ELSE dr_handle

\* handle.file.deref(pptr), for a pointer whose file id is 0 or indexes the
\* externals table of the file of the handle
call_deref ==
    /\ CanDeref
    /\ dr_handle.kind = "some"
    /\ \E pptr \in DerefPPtrs :
          /\ pptr.m_FileID <= Len(m_Externals[dr_handle.file.path])
          /\ \E r \in {deref(dr_handle.file, pptr)} :
                /\ Dereferenced("deref", dr_handle, pptr, r)
                /\ dr_handle' = IF r.kind = "Ok" THEN r.val ELSE dr_handle

\* handle.file.env.deref_read_untyped(pptr, handle.file.file, reader)
call_deref_read_untyped ==
    /\ CanDeref
    /\ dr_handle.kind = "some"
    /\ \E pptr \in DerefPPtrs :
          \E r \in {deref_read_untyped(dr_handle.file, pptr)} :
             /\ Dereferenced("deref_read_untyped", dr_handle, pptr, r)
             /\ UNCHANGED dr_handle

InitDeref ==
    /\ IdleReach
    /\ IdleParse
    /\ IdlePrune
    /\ IdleLookup
    /\ IdleCatalog
    /\ IdleIndex
    /\ IdleFold
    /\ serialized_files = <<>>
    /\ unity_version = "unset"
    /\ addressables = "unset"
    /\ disk \in [has_aa : BOOLEAN, ggm_ver : BOOLEAN, cab_ver : BOOLEAN]
    /\ thr = <<>>
    /\ reads = [p \in ReadPaths |-> 0]
    /\ calls = 0
    /\ m_Externals \in [DerefFiles -> UNION {DistinctSeqs(DerefPaths, n) : n \in 0..MaxExternals}]
    /\ dr_handle = [kind |-> "none"]
    /\ dr_last = [op |-> "none"]
    /\ dr_n = 0

NextDeref ==
    \/ call_object_at
    \/ call_deref
    \/ call_deref_read_untyped

SpecDeref == InitDeref /\ [][NextDeref]_vars

\* the file the pointer of the last dereference was read out of, and the
\* file its file id names in the externals table of that file
PointerFile == dr_last.from.object.file.path
TargetFile == m_Externals[PointerFile][dr_last.pptr.m_FileID]

\* the last operation dereferenced a pointer with a non-local file id and
\* returned Ok
ExternalDeref(op) ==
    /\ dr_last.op = op
    /\ dr_last.kind = "Ok"
    /\ dr_last.pptr.m_FileID # 0

\* C22: a dereference of a pointer with a non-local file id, read out of an
\* object of file F, loads the file that F's own externals table names at
\* that index through load_external_file and finds path_id in the object
\* table of that file; the handle returned is bound to that external file,
\* so that the next dereference goes through the external file's table.
C22_DerefThroughOwnExternals ==
    /\ ExternalDeref("deref") =>
          /\ TargetFile \in DOMAIN serialized_files
          /\ dr_last.pptr.m_PathID \in ObjectTable(TargetFile)
          /\ dr_last.val.object.file =
                 SerializedFileHandle(TargetFile, serialized_files[TargetFile])
          /\ dr_last.val.object.path_id = dr_last.pptr.m_PathID
          /\ dr_last.val.file = dr_last.val.object.file
          /\ dr_handle = dr_last.val
    /\ ExternalDeref("deref_read_untyped") =>
          /\ TargetFile \in DOMAIN serialized_files
          /\ dr_last.pptr.m_PathID \in ObjectTable(TargetFile)
          /\ dr_last.val = [path |-> TargetFile, path_id |-> dr_last.pptr.m_PathID]

\* a handle returned by an external dereference was dereferenced again, and
\* the file id of the second pointer names different files in the two tables
C22_Witness ==
    /\ ExternalDeref("deref")
    /\ dr_last.chained
    /\ dr_last.from.object.file.path = A_MAIN
    /\ m_Externals[LEVEL0] = <<A_MAIN, NOFILE>>
    /\ m_Externals[A_MAIN] = <<LEVEL0>>
    /\ dr_last.pptr.m_FileID = 1
    /\ dr_last.val.file.path = LEVEL0
    /\ dr_n = 3
    /\ serialized_files[A_MAIN].by = "load_external_file"
    /\ reads[A_MAIN] = 1

(***************************************************************************)
(* reachable(): how often a node is put on the queue and expanded.         *)
(***************************************************************************)
\* every node that was ever on the queue, in the order it was put there:
\* the nodes already taken off and the nodes still waiting
enqueued == expanded \o queue

\* no value occurs twice in the sequence q
NoDuplicates(q) == \A i, j \in 1..Len(q) : q[i] = q[j] => i = j

\* C24: in one traversal every local object id is put on the queue and
\* expanded at most once, for any root set, also when one root holds a
\* local pointer to another root or a root is listed twice: when the
\* traversal returns, no id occurs twice among the nodes it took off the
\* queue.
C24_EnqueuedAndExpandedAtMostOnce == rpc = "done" => NoDuplicates(enqueued)

\* a root that was expanded is expanded again: it was still waiting in the
\* queue when the scan of another root met a pointer to it
RootExpandedTwice ==
    /\ NoDuplicates(from)
    /\ rpc = "done"
    /\ ~NoDuplicates(expanded)

\* the roots are distinct and no object reachable from them points to a root
RootsAreNoTargets ==
    /\ NoDuplicates(from)
    /\ \A i \in LeastClosed(file, Roots) \cap DOMAIN file : LocalTargets(file, i) \cap Roots = {}

\* with such roots, and always with a single root, every id is put on the
\* queue and expanded at most once: the scan puts an id on the queue only
\* when locals.insert returns true
OnceWhenRootsAreNoTargets ==
    RootsAreNoTargets \/ Len(from) <= 1 => NoDuplicates(enqueued)

(***************************************************************************)
(* reachable(): termination.  The loop is sequential code: as long as a    *)
(* step of it can be taken, one is taken.                                  *)
(***************************************************************************)
\* number of pointer fields of a file, and length of the root queue, of the
\* traversals whose termination is checked
MaxLiveEdges == 2
MaxLiveRoots == 1

InitReachLive ==
    /\ IdleLookup
    /\ IdleParse
    /\ IdleCatalog
    /\ IdleIndex
    /\ IdleDeref
    /\ IdleFold
    /\ IdleCache
    /\ IdlePrune
    /\ \E es \in {l \in EdgeLists : Len(l) <= MaxLiveEdges} : file = GenFile(es)
    /\ from \in SeqsUpTo(PathIds \cup {Dangling}, MaxLiveRoots)
    /\ queue = from
    /\ locals = {}
    /\ externals = {}
    /\ expanded = <<>>
    /\ rpc = "loop"

SpecReachLive == InitReachLive /\ [][NextReach]_vars /\ WF_vars(NextReach)

\* the node taken off the queue last
LastExpanded == expanded[Len(expanded)]

Rewritten(id) == IF id \in DOMAIN replacements THEN replacements[id] ELSE file[id]

\* the Transforms that received a replacement
RewrittenTransforms == {id \in DOMAIN replacements : file[id].class = "Transform"}

\* C26: after prune_scene_inner every ancestor Transform that received a
\* replacement has as its rewritten child list exactly its original
\* children that are in the reachable set, in their original order; and
\* every child pointer of every Transform of the final reachable set, taken
\* from its replacement where it has one, targets a member of that set.
C26_ChildListsStayInsideReachable ==
    ppc = "done" =>
        /\ \A id \in RewrittenTransforms :
              replacements[id].m_Children =
                  SelectSeq(file[id].m_Children, LAMBDA child : child.m_PathID \in all_reachable)
        /\ \A id \in all_reachable \cap DOMAIN file :
              file[id].class = "Transform" =>
                  \A child \in Range(Rewritten(id).m_Children) :
                      is_local(child) /\ child.m_PathID \in all_reachable

\* two different kept Transforms below one root: the root is collected as
\* ancestor once, for the first of them, and its replacement keeps both
C26_Witness ==
    /\ ppc = "done"
    /\ Len(retain_objects) = 2
    /\ retain_objects[1] # retain_objects[2]
    /\ \E root \in RewrittenTransforms :
          /\ file[retain_objects[1]].m_Father = root
          /\ file[retain_objects[2]].m_Father = root
          /\ Len(replacements[root].m_Children) = 2
    /\ ancestors # <<>>

(***************************************************************************)
(* The string cache against a decoder without it.                           *)
(***************************************************************************)
\* the reader with an empty string cache: read_encoded_string_sep falls
\* through the lookup of binary_catalog.rs:524 and decodes from the blob
without_string_cache(s) == [s EXCEPT !.strings = <<>>]

\* what a decoder without the cache returns for (encoded_offset, separator)
uncached_string(s, encoded_offset, separator) ==
    read_encoded_string_sep(without_string_cache(s), encoded_offset, separator)

\* the last call decoded a string
StringCall == cat_call.op = "read_encoded_string_sep"

\* the last call found its encoded offset in cache.strings
StringCacheHit == StringCall /\ cat_call.arg \in DOMAIN cat_call.before.strings

\* C27: every call of read_encoded_string_sep(encoded_offset, separator)
\* returns what a decoder without the string cache returns for that encoded
\* offset and separator, whatever separators the earlier decodes of the same
\* encoded offset used.
C27_StringCacheIsTransparent ==
    StringCall =>
        \E r \in {uncached_string(cat_call.before, cat_call.arg, cat_call.sep)} :
            cat_call.kind = r.kind /\ cat_call.val = r.val

\* the calls that miss the cache return what the decoder without it returns
StringCacheMissIsTransparent ==
    (StringCall /\ ~StringCacheHit) => C27_StringCacheIsTransparent

\* a hit returns what the decoder without the cache returns whenever the
\* offset was decoded before with the same separator only
SameSeparatorHit ==
    /\ StringCacheHit
    /\ \E r \in {uncached_string(cat_call.before, cat_call.arg, cat_call.sep)} :
          r.kind = "Ok" /\ r.val = cat_call.val

(***************************************************************************)
(* The assertions of adjust_ancestor and adjust_kept (prune.rs:151, 170).   *)
(***************************************************************************)
\* prune_scene_inner stopped at assert!(replacements.insert(..).is_none()):
\* reachable had returned Ok, so the panic is none of the traversal
ReplacementAssertionFailed == ppc = "panic" /\ rpc = "done"

\* C28: from an empty replacements map, for every keep-list (one that lists
\* a path twice and one with two paths of the same Transform included) and
\* either value of disable_roots, prune_scene inserts at most one
\* replacement per path_id: the assertions of adjust_ancestor and
\* adjust_kept never fail.
C28_ReplacementAssertionsNeverFail == ~ReplacementAssertionFailed

\* an assertion fails only with disable_roots, on a keep-list that resolves
\* to one Transform twice
AssertionFailsOnlyOnRepeatedRoot ==
    ReplacementAssertionFailed => disable_roots /\ ~NoDuplicates(retain_objects)

\* without disable_roots the keep-list may resolve to one Transform twice
RepeatedRootWithoutDisable ==
    ppc = "done" /\ ~disable_roots /\ ~NoDuplicates(retain_objects)

(***************************************************************************)
(* utils.rs: seq_fold_reduce, par_fold_reduce and the Merge impls.  rayon   *)
(* makes accumulators with Acc::default, hands every item to one of them    *)
(* and merges the accumulators two by two in an order it chooses.           *)
(***************************************************************************)
MaxItems == 3

\* the accumulators rayon holds at one time
MaxAccs == 3

ItemKeys == {"a", "b"}

ItemValues == {1, 2}

\* an item the closure folds, or one on which it returns an error
Items == [k : ItemKeys, v : ItemValues] \cup {[k |-> "bad", v |-> 0]}

Usize == [t |-> "usize"]

SetOf == [t |-> "set"]

MapOf(value) == [t |-> "map", v |-> value]

Tuple2(t0, t1) == [t |-> "tuple2", c |-> <<t0, t1>>]

Tuple3(t0, t1, t2) == [t |-> "tuple3", c |-> <<t0, t1, t2>>]

\* the accumulator types of the calls
Shapes ==
    {Usize, SetOf, MapOf(Usize), MapOf(SetOf),
     Tuple2(Usize, SetOf), Tuple2(MapOf(Usize), SetOf),
     Tuple3(Usize, SetOf, MapOf(Usize)), Tuple3(SetOf, MapOf(SetOf), Usize)}

RECURSIVE Default(_)
\* Acc::default()
Default(shape) ==
    CASE shape.t = "usize" -> 0
      [] shape.t = "set" -> {}
      [] shape.t = "map" -> <<>>
      [] shape.t = "tuple2" -> <<Default(shape.c[1]), Default(shape.c[2])>>
      [] shape.t = "tuple3" ->
            <<Default(shape.c[1]), Default(shape.c[2]), Default(shape.c[3])>>

\* the number of entries of a set or a map
len(shape, acc) == IF shape.t = "set" THEN Cardinality(acc) ELSE Cardinality(DOMAIN acc)

RECURSIVE merge(_, _, _)
\* Merge::merge(&mut self, other) of the accumulator type
merge(shape, self, other) ==
    CASE shape.t = "usize" -> self + other
      [] shape.t = "set" ->
            LET swap == len(shape, other) > len(shape, self)
                into == IF swap THEN other ELSE self
                rest == IF swap THEN self ELSE other
            IN into \cup rest
      [] shape.t = "map" ->
            LET swap == len(shape, other) > len(shape, self)
                into == IF swap THEN other ELSE self
                rest == IF swap THEN self ELSE other
            IN [item \in DOMAIN into \cup DOMAIN rest |->
                    IF item \notin DOMAIN into THEN rest[item]
                    ELSE IF item \notin DOMAIN rest THEN into[item]
                    ELSE merge(shape.v, into[item], rest[item])]
      [] shape.t = "tuple2" ->
            <<merge(shape.c[1], self[1], other[1]), merge(shape.c[2], self[2], other[2])>>
      [] shape.t = "tuple3" ->
            <<merge(shape.c[1], self[1], other[1]), merge(shape.c[2], self[2], other[2]),
              self[3]>>

RECURSIVE f(_, _, _)
\* the closure of the caller: a counter adds, a set inserts, a map folds the
\* item into entry(key).or_default(), a tuple folds it into every component
f(shape, acc, item) ==
    CASE shape.t = "usize" -> acc + item.v
      [] shape.t = "set" -> acc \cup {item.v}
      [] shape.t = "map" ->
            LET entry == IF item.k \in DOMAIN acc THEN acc[item.k] ELSE Default(shape.v)
            IN (item.k :> f(shape.v, entry, item)) @@ acc
      [] shape.t = "tuple2" ->
            <<f(shape.c[1], acc[1], item), f(shape.c[2], acc[2], item)>>
      [] shape.t = "tuple3" ->
            <<f(shape.c[1], acc[1], item), f(shape.c[2], acc[2], item),
              f(shape.c[3], acc[3], item)>>

\* f(&mut acc, item) returns an error
Fails(item) == item.k = "bad"

RECURSIVE seq_fold(_, _, _)
\* the loop of seq_fold_reduce: f(&mut acc, item)? for every item
seq_fold(shape, acc, items) ==
    IF items = <<>> THEN [kind |-> "Ok", val |-> acc]
    ELSE IF Fails(Head(items)) THEN [kind |-> "Err"]
    ELSE seq_fold(shape, f(shape, acc, Head(items)), Tail(items))

seq_fold_reduce(shape, items) == seq_fold(shape, Default(shape), items)

FoldUnchanged ==
    UNCHANGED <<reachVars, parseVars, cacheVars, pruneVars, lookupVars, catalogVars,
                indexVars, derefVars>>

\* q without its i-th element
RemoveAt(q, i) == SubSeq(q, 1, i - 1) \o SubSeq(q, i + 1, Len(q))

\* the identity of try_fold and try_reduce: a worker starts an accumulator
Acc_default ==
    /\ fr_result.kind = "pending"
    /\ Len(fr_accs) < MaxAccs
    /\ fr_accs' = Append(fr_accs, Default(fr_shape))
    /\ UNCHANGED <<fr_shape, fr_items, fr_pending, fr_result>>
    /\ FoldUnchanged

\* the closure of try_fold: one item is folded into one accumulator; an
\* error of f ends the call
par_try_fold ==
    /\ fr_result.kind = "pending"
    /\ \E i \in fr_pending, a \in 1..Len(fr_accs) :
          /\ fr_pending' = fr_pending \ {i}
          /\ IF Fails(fr_items[i])
             THEN /\ fr_result' = [kind |-> "Err"]
                  /\ UNCHANGED fr_accs
             ELSE /\ fr_accs' = [fr_accs EXCEPT ![a] = f(fr_shape, @, fr_items[i])]
                  /\ UNCHANGED fr_result
    /\ UNCHANGED <<fr_shape, fr_items>>
    /\ FoldUnchanged

\* the closure of try_reduce: Merge::merge(&mut acc, item) on two of the
\* accumulators
par_try_reduce ==
    /\ fr_result.kind = "pending"
    /\ \E a, b \in 1..Len(fr_accs) :
          /\ a # b
          /\ fr_accs' = RemoveAt([fr_accs EXCEPT ![a] = merge(fr_shape, @, fr_accs[b])], b)
    /\ UNCHANGED <<fr_shape, fr_items, fr_pending, fr_result>>
    /\ FoldUnchanged

\* every item is folded and one accumulator is left
par_fold_reduce_return ==
    /\ fr_result.kind = "pending"
    /\ fr_pending = {}
    /\ Len(fr_accs) = 1
    /\ fr_result' = [kind |-> "Ok", val |-> fr_accs[1]]
    /\ UNCHANGED <<fr_shape, fr_items, fr_pending, fr_accs>>
    /\ FoldUnchanged

InitFold ==
    /\ IdleReach
    /\ IdleParse
    /\ IdleCache
    /\ IdlePrune
    /\ IdleLookup
    /\ IdleCatalog
    /\ IdleIndex
    /\ IdleDeref
    /\ fr_shape \in Shapes
    /\ fr_items \in SeqsUpTo(Items, MaxItems)
    /\ fr_pending = DOMAIN fr_items
    /\ fr_accs = <<>>
    /\ fr_result = [kind |-> "pending"]

NextFold ==
    \/ Acc_default
    \/ par_try_fold
    \/ par_try_reduce
    \/ par_fold_reduce_return

SpecFold == InitFold /\ [][NextFold]_vars

\* the accumulator of seq_fold_reduce over the items of the call
Sequential == seq_fold_reduce(fr_shape, fr_items)

\* C29: par_fold_reduce returns the accumulator that seq_fold_reduce returns
\* over the same items, for every partition of the items over the workers
\* and every merge order, for counters, sets, maps of them and 2-tuples and
\* 3-tuples of them.
C29_ParallelEqualsSequential ==
    fr_result.kind = "Ok" =>
        \E s \in {Sequential} : s.kind = "Ok" /\ fr_result.val = s.val

\* for every accumulator type but the 3-tuples the two accumulators are equal
EqualExceptFor3Tuples ==
    (fr_result.kind = "Ok" /\ fr_shape.t # "tuple3") => C29_ParallelEqualsSequential

\* of a 3-tuple the first two components are equal
FirstTwoComponentsEqual ==
    (fr_result.kind = "Ok" /\ fr_shape.t = "tuple3") =>
        \E s \in {Sequential} :
            /\ s.kind = "Ok"
            /\ fr_result.val[1] = s.val[1]
            /\ fr_result.val[2] = s.val[2]

\* par_fold_reduce returns an error exactly when seq_fold_reduce does
SameErrors ==
    fr_result.kind # "pending" => fr_result.kind = Sequential.kind

(***************************************************************************)
(* The replacements against the reachable set that prune_scene returns.     *)
(***************************************************************************)
\* the GameObjects of the kept Transforms
KeptGameObjects == {file[retain_objects[i]].m_GameObject : i \in 1..Len(retain_objects)}

\* C30: after prune_scene on an empty replacements map every key of the
\* replacements map, a rewritten ancestor Transform or with disable_roots
\* the GameObject of a kept root, is in the returned reachable set.
C30_ReplacementKeysAreReachable ==
    ppc = "done" => DOMAIN replacements \subseteq all_reachable

\* prune_scene returned with disable_roots: an ancestor Transform and the
\* GameObject of the kept root are both rewritten
C30_Witness ==
    /\ ppc = "done"
    /\ disable_roots
    /\ ancestors # <<>>
    /\ Range(ancestors) \subseteq DOMAIN replacements
    /\ KeptGameObjects # {}
    /\ KeptGameObjects \subseteq DOMAIN replacements
    /\ DOMAIN replacements = Range(ancestors) \cup KeptGameObjects
====
